---- MODULE Spec2Model ----
(***************************************************************************)
(* nablo_data (src/src/lib.rs): the ParsedData tree, the serde codec       *)
(* (to_data / from_data) and the three path-addressed walkers              *)
(* (caculate_delta_data, apply_delta_data, animation_caculate).            *)
(*                                                                         *)
(* Numbers.  The code computes in i128 and f64.  TLC's integers are 32     *)
(* bits wide, so an integer of the program is kept as a sign and a         *)
(* magnitude, the magnitude a little-endian sequence of 16-bit limbs with  *)
(* no leading zero limb (0 is <<>>).  Arithmetic on these is exact; the    *)
(* places where the program wraps (i128 +), saturates (f64 as i128) or     *)
(* rounds (i128 as f64, f64 +, f64 as f32) do so explicitly below.         *)
(***************************************************************************)
EXTENDS Integers, Sequences, FiniteSets, TLC

----------------------------------------------------------------------------
(* Unsigned magnitudes *)

LimbBase == 2^16

RECURSIVE UNorm(_)
UNorm(s) ==
    IF s = <<>> THEN <<>>
    ELSE IF s[Len(s)] = 0 THEN UNorm(SubSeq(s, 1, Len(s) - 1))
    ELSE s

ULimb(s, i) == IF i <= Len(s) THEN s[i] ELSE 0

UMaxLen(a, b) == IF Len(a) >= Len(b) THEN Len(a) ELSE Len(b)

RECURSIVE UAddFrom(_, _, _, _)
UAddFrom(a, b, i, carry) ==
    IF i > UMaxLen(a, b)
    THEN IF carry = 0 THEN <<>> ELSE <<carry>>
    ELSE LET t == ULimb(a, i) + ULimb(b, i) + carry
         IN  <<t % LimbBase>> \o UAddFrom(a, b, i + 1, t \div LimbBase)

UAdd(a, b) == UAddFrom(a, b, 1, 0)

RECURSIVE UCmpFrom(_, _, _)
UCmpFrom(a, b, i) ==
    IF i = 0 THEN 0
    ELSE IF a[i] < b[i] THEN -1
    ELSE IF a[i] > b[i] THEN 1
    ELSE UCmpFrom(a, b, i - 1)

\* -1, 0 or 1 as a < b, a = b, a > b
UCmp(a, b) ==
    IF Len(a) < Len(b) THEN -1
    ELSE IF Len(a) > Len(b) THEN 1
    ELSE UCmpFrom(a, b, Len(a))

RECURSIVE USubFrom(_, _, _, _)
USubFrom(a, b, i, borrow) ==
    IF i > Len(a) THEN <<>>
    ELSE LET t == ULimb(a, i) - ULimb(b, i) - borrow
         IN  <<t % LimbBase>> \o USubFrom(a, b, i + 1, IF t < 0 THEN 1 ELSE 0)

\* a - b for a >= b
USub(a, b) == UNorm(USubFrom(a, b, 1, 0))

UOf(n) == UNorm(<<n % LimbBase, n \div LimbBase>>)

UPow2(k) == [i \in 1..((k \div 16) + 1) |-> IF i = (k \div 16) + 1 THEN 2^(k % 16) ELSE 0]

RECURSIVE SmallBitLen(_)
SmallBitLen(n) == IF n = 0 THEN 0 ELSE 1 + SmallBitLen(n \div 2)

UBitLen(a) == IF a = <<>> THEN 0 ELSE 16 * (Len(a) - 1) + SmallBitLen(a[Len(a)])

UBit(a, k) == (ULimb(a, (k \div 16) + 1) \div 2^(k % 16)) % 2

\* a mod 2^k
UModPow2(a, k) ==
    UNorm([i \in 1..Len(a) |->
             IF i < (k \div 16) + 1 THEN a[i]
             ELSE IF i = (k \div 16) + 1 THEN a[i] % 2^(k % 16)
             ELSE 0])

UDouble(a) == UAdd(a, a)

RECURSIVE UHalfFrom(_, _)
UHalfFrom(a, i) ==
    IF i > Len(a) THEN <<>>
    ELSE <<(a[i] \div 2) + (ULimb(a, i + 1) % 2) * (LimbBase \div 2)>> \o UHalfFrom(a, i + 1)

\* floor(a / 2)
UHalf(a) == UNorm(UHalfFrom(a, 1))

\* a rounded to p significant bits, ties to even (IEEE 754 roundTiesToEven)
URound(a, p) ==
    IF UBitLen(a) <= p THEN a
    ELSE LET q    == UBitLen(a) - p
             rem  == UModPow2(a, q)
             base == USub(a, rem)
             c    == UCmp(rem, UPow2(q - 1))
             up   == c > 0 \/ (c = 0 /\ UBit(a, q) = 1)
         IN  IF up THEN UAdd(base, UPow2(q)) ELSE base

----------------------------------------------------------------------------
(* Signed integers *)

Z(neg, mag) == [neg |-> neg /\ mag # <<>>, mag |-> mag]

ZOf(n) == IF n < 0 THEN Z(TRUE, UOf(-n)) ELSE Z(FALSE, UOf(n))

ZNeg(a) == Z(~a.neg, a.mag)

ZAdd(a, b) ==
    IF a.neg = b.neg THEN Z(a.neg, UAdd(a.mag, b.mag))
    ELSE IF UCmp(a.mag, b.mag) >= 0 THEN Z(a.neg, USub(a.mag, b.mag))
    ELSE Z(b.neg, USub(b.mag, a.mag))

ZSub(a, b) == ZAdd(a, ZNeg(b))

ZLt(a, b) ==
    IF a.neg # b.neg THEN a.neg
    ELSE IF a.neg THEN UCmp(a.mag, b.mag) > 0
    ELSE UCmp(a.mag, b.mag) < 0

ZGt(a, b) == ZLt(b, a)

ZLe(a, b) == ~ZLt(b, a)

----------------------------------------------------------------------------
(* Decimal rendering (ToString of Rust's integer Display) *)

RECURSIVE UDivTenFrom(_, _, _)
\* long division of the limbs i..1 by ten: <<quotient limbs (little-endian), remainder>>
UDivTenFrom(a, i, rem) ==
    IF i = 0 THEN <<<<>>, rem>>
    ELSE LET t    == rem * LimbBase + a[i]
             rest == UDivTenFrom(a, i - 1, t % 10)
         IN  <<rest[1] \o <<t \div 10>>, rest[2]>>

RECURSIVE UToString(_)
UToString(a) ==
    IF Len(a) = 0 THEN "0"
    ELSE IF Len(a) = 1 /\ a[1] < 10 THEN ToString(a[1])
    ELSE LET d == UDivTenFrom(a, Len(a), 0)
         IN  UToString(UNorm(d[1])) \o ToString(d[2])

ZToString(z) == IF z.neg THEN "-" \o UToString(z.mag) ELSE UToString(z.mag)

----------------------------------------------------------------------------
(* Primitive integer types and i128 *)

SignedTypes == {"i8", "i16", "i32", "i64"}
UnsignedTypes == {"u8", "u16", "u32", "u64"}
IntTypes == SignedTypes \cup UnsignedTypes

IntBits(ty) ==
    CASE ty \in {"i8", "u8"} -> 8
      [] ty \in {"i16", "u16"} -> 16
      [] ty \in {"i32", "u32"} -> 32
      [] ty \in {"i64", "u64"} -> 64

\* $t::MIN and $t::MAX
IntMin(ty) == IF ty \in SignedTypes THEN Z(TRUE, UPow2(IntBits(ty) - 1)) ELSE Z(FALSE, <<>>)
IntMax(ty) ==
    IF ty \in SignedTypes THEN Z(FALSE, USub(UPow2(IntBits(ty) - 1), UOf(1)))
    ELSE Z(FALSE, USub(UPow2(IntBits(ty)), UOf(1)))

\* $t::MIN.into()..=$t::MAX.into()
IntRange(ty) == [start |-> IntMin(ty), end |-> IntMax(ty)]

I128Min == Z(TRUE, UPow2(127))
I128Max == Z(FALSE, USub(UPow2(127), UOf(1)))

InI128(z) == ZLe(I128Min, z) /\ ZLe(z, I128Max)

\* the two's complement result of an i128 operation whose exact result is z
WrapI128(z) ==
    IF ZGt(z, I128Max) THEN ZSub(z, Z(FALSE, UPow2(128)))
    ELSE IF ZLt(z, I128Min) THEN ZAdd(z, Z(FALSE, UPow2(128)))
    ELSE z

\* x as $t for an i128 x: truncation to the low bits of $t
IntCast(z, ty) ==
    LET bits == IntBits(ty)
        r    == UModPow2(z.mag, bits)
        m    == IF z.neg /\ r # <<>> THEN USub(UPow2(bits), r) ELSE r
    IN  IF ty \in SignedTypes /\ UBit(m, bits - 1) = 1
        THEN Z(TRUE, USub(UPow2(bits), m))
        ELSE Z(FALSE, m)

----------------------------------------------------------------------------
(* f64 and f32.  A float of the model is NaN, an infinity, or a finite     *)
(* multiple of 1/2: h is the magnitude in halves.  -0.0 is not modelled.   *)

FNaN == [cls |-> "nan", neg |-> FALSE, h |-> <<>>]
FInf(neg) == [cls |-> "inf", neg |-> neg, h |-> <<>>]
FFin(neg, h) == [cls |-> "fin", neg |-> neg /\ h # <<>>, h |-> h]
\* the float n/2 for a small integer n
FHalves(n) == IF n < 0 THEN FFin(TRUE, UOf(-n)) ELSE FFin(FALSE, UOf(n))
FOfInt(n) == FHalves(2 * n)
FNegate(f) == IF f.cls = "nan" THEN f ELSE [f EXCEPT !.neg = ~f.neg /\ (f.cls = "inf" \/ f.h # <<>>)]

\* x as f64 for an i128 x: nearest f64, ties to even (53-bit significand)
I128AsF64(z) == FFin(z.neg, URound(UDouble(z.mag), 53))

\* x as i128 for a float x: NaN is 0, the rest truncates toward zero and saturates
FloatAsI128(f) ==
    CASE f.cls = "nan" -> ZOf(0)
      [] f.cls = "inf" -> IF f.neg THEN I128Min ELSE I128Max
      [] OTHER -> LET t == Z(f.neg, UHalf(f.h))
                  IN  IF ZGt(t, I128Max) THEN I128Max
                      ELSE IF ZLt(t, I128Min) THEN I128Min
                      ELSE t

\* f64 + f64
F64Add(x, y) ==
    IF x.cls = "nan" \/ y.cls = "nan" THEN FNaN
    ELSE IF x.cls = "inf" THEN (IF y.cls = "inf" /\ y.neg # x.neg THEN FNaN ELSE x)
    ELSE IF y.cls = "inf" THEN y
    ELSE LET s == ZAdd(Z(x.neg, x.h), Z(y.neg, y.h))
         IN  FFin(s.neg, URound(s.mag, 53))

\* f64 - f64
F64Sub(x, y) == F64Add(x, FNegate(y))

\* a != that holds of equal floats too
F64AlwaysNe(x, y) == TRUE
\* f64 != f64 (NaN differs from everything, itself included)
F64Ne(x, y) == x.cls = "nan" \/ y.cls = "nan" \/ x # y

\* x as f32 for an f64 x: 24-bit significand, overflow to infinity
F64AsF32(f) ==
    IF f.cls # "fin" THEN f
    ELSE LET r == URound(f.h, 24)
         IN  IF UBitLen(r) > 129 THEN FInf(f.neg) ELSE FFin(f.neg, r)

\* Display of a float (the name of a map entry keyed by a float)
FToString(f) ==
    CASE f.cls = "nan" -> "NaN"
      [] f.cls = "inf" -> IF f.neg THEN "-inf" ELSE "inf"
      [] OTHER -> (IF f.neg THEN "-" ELSE "") \o UToString(UHalf(f.h))
                  \o (IF UBit(f.h, 0) = 1 THEN ".5" ELSE "")

----------------------------------------------------------------------------
(* DataEnum and ParsedData *)

DNode(inner) == [k |-> "Node", inner |-> inner]
\* DataEnum::Map(Box<(key, value)>)
DMap(key, value) == [k |-> "Map", key |-> key, value |-> value]
DEnum(variant, inner) == [k |-> "Enum", variant |-> variant, inner |-> inner]
DData(bytes) == [k |-> "Data", bytes |-> bytes]
DString(s) == [k |-> "String", s |-> s]
DInt(value, range) == [k |-> "Int", value |-> value, range |-> range]
DFloat(f) == [k |-> "Float", f |-> f]
DBool(b) == [k |-> "Bool", b |-> b]
DNone == [k |-> "None"]

ParsedData(data, name, need_delete) == [data |-> data, name |-> name, need_delete |-> need_delete]

\* ParsedData::default()
DefaultParsedData == ParsedData(DNone, "", FALSE)

\* impl From<$t> for ParsedData (impl_into_parsed_data!)
IntoParsedData(data) == ParsedData(data, "", FALSE)

Rename(pd, name) == [pd EXCEPT !.name = name]

----------------------------------------------------------------------------
(* Values of the serde data model: what a Serialize impl hands the         *)
(* Serializer.  ty is the shape, the other fields its parts.               *)

VInt(ty, z) == [ty |-> ty, int |-> z]
VFloat(ty, f) == [ty |-> ty, float |-> f]
VBool(b) == [ty |-> "bool", bool |-> b]
VChar(c) == [ty |-> "char", str |-> c]
VString(s) == [ty |-> "String", str |-> s]
VBytes(bytes) == [ty |-> "bytes", bytes |-> bytes]
\* Option<T>: inner is T's type
VNone(inner) == [ty |-> "option", some |-> FALSE, inner |-> inner]
VSome(inner, v) == [ty |-> "option", some |-> TRUE, inner |-> inner, val |-> v]
VUnit == [ty |-> "unit"]
VUnitStruct(name) == [ty |-> "unit_struct", name |-> name]
VNewtypeStruct(name, v) == [ty |-> "newtype_struct", name |-> name, val |-> v]
\* Vec<T>: elem is T's type
VSeq(elem, elems) == [ty |-> "seq", elem |-> elem, elems |-> elems]
VTuple(elems) == [ty |-> "tuple", elems |-> elems]
VTupleStruct(name, elems) == [ty |-> "tuple_struct", name |-> name, elems |-> elems]
\* fields: a sequence of <<name, value>>
VStruct(name, fields) == [ty |-> "struct", name |-> name, fields |-> fields]
\* a map: entries is the set of its <<key, value>>, one per key
VMap(keyTy, valTy, entries) == [ty |-> "map", keyTy |-> keyTy, valTy |-> valTy, entries |-> entries]
\* an enum value: ety is the enum's type (below), index the variant's u32 index
VUnitVariant(ety, index) ==
    [ty |-> "enum", ety |-> ety, name |-> ety.name, index |-> index,
     variant |-> ety.variants[index + 1].variant, shape |-> "unit"]
VNewtypeVariant(ety, index, v) ==
    [ty |-> "enum", ety |-> ety, name |-> ety.name, index |-> index,
     variant |-> ety.variants[index + 1].variant, shape |-> "newtype", val |-> v]
VTupleVariant(ety, index, elems) ==
    [ty |-> "enum", ety |-> ety, name |-> ety.name, index |-> index,
     variant |-> ety.variants[index + 1].variant, shape |-> "tuple", elems |-> elems]
VStructVariant(ety, index, fields) ==
    [ty |-> "enum", ety |-> ety, name |-> ety.name, index |-> index,
     variant |-> ety.variants[index + 1].variant, shape |-> "struct", fields |-> fields]

(* Types: what a Deserialize impl asks the Deserializer for *)

T(ty) == [ty |-> ty]
TOption(inner) == [ty |-> "option", inner |-> inner]
TSeq(elem) == [ty |-> "seq", elem |-> elem]
TTuple(elems) == [ty |-> "tuple", elems |-> elems]
TTupleStruct(name, elems) == [ty |-> "tuple_struct", name |-> name, elems |-> elems]
TNewtypeStruct(name, inner) == [ty |-> "newtype_struct", name |-> name, inner |-> inner]
TUnitStruct(name) == [ty |-> "unit_struct", name |-> name]
\* fields: a sequence of <<name, type>>
TStruct(name, fields) == [ty |-> "struct", name |-> name, fields |-> fields]
TMap(key, val) == [ty |-> "map", key |-> key, val |-> val]
\* variants: a sequence of UnitV, NewtypeV, TupleV, StructV
TEnum(name, variants) == [ty |-> "enum", name |-> name, variants |-> variants]
UnitV(variant) == [variant |-> variant, shape |-> "unit"]
NewtypeV(variant, inner) == [variant |-> variant, shape |-> "newtype", inner |-> inner]
TupleV(variant, elems) == [variant |-> variant, shape |-> "tuple", elems |-> elems]
StructV(variant, fields) == [variant |-> variant, shape |-> "struct", fields |-> fields]
\* serde::de::IgnoredAny
TIgnoredAny == [ty |-> "ignored_any"]

RECURSIVE TypeOf(_)
\* the type of a value
TypeOf(v) ==
    CASE v.ty = "option" -> TOption(v.inner)
      [] v.ty = "seq" -> TSeq(v.elem)
      [] v.ty = "tuple" -> TTuple([i \in 1..Len(v.elems) |-> TypeOf(v.elems[i])])
      [] v.ty = "tuple_struct" ->
            TTupleStruct(v.name, [i \in 1..Len(v.elems) |-> TypeOf(v.elems[i])])
      [] v.ty = "newtype_struct" -> TNewtypeStruct(v.name, TypeOf(v.val))
      [] v.ty = "unit_struct" -> TUnitStruct(v.name)
      [] v.ty = "struct" ->
            TStruct(v.name, [i \in 1..Len(v.fields) |-> <<v.fields[i][1], TypeOf(v.fields[i][2])>>])
      [] v.ty = "map" -> TMap(v.keyTy, v.valTy)
      [] v.ty = "enum" -> v.ety
      [] OTHER -> T(v.ty)

----------------------------------------------------------------------------
(* Serializer for &mut Parser, and the Layer it builds aggregates in *)

\* SerializeMap::serialize_key: the name a key gives its entry
KeyName(key) ==
    CASE key.data.k = "String" -> key.data.s
      [] key.data.k = "Int" -> ZToString(key.data.value)
      [] key.data.k = "Float" -> FToString(key.data.f)
      [] key.data.k = "Bool" -> (IF key.data.b THEN "true" ELSE "false")
      [] OTHER -> ""

\* SerializeMap::serialize_key then serialize_value: the entry pushed for (key, parse)
MapEntry(key, parse) ==
    LET key_data == ParsedData(key.data, KeyName(key), FALSE)
    IN  ParsedData(DMap(key_data, parse), key_data.name, FALSE)

\* Layer::end for a sequence, tuple, struct, tuple struct or map
LayerEnd(final_name, inner) == ParsedData(DNode(inner), final_name, FALSE)

\* Layer::end for a tuple variant or struct variant
LayerEndVariant(final_name, inner) == ParsedData(DEnum(final_name, inner), final_name, FALSE)

RECURSIVE IterOrder(_)
\* the order a map hands its entries to serialize_entry: fixed by the map, one of
\* the orders of its entries
IterOrder(entries) ==
    IF entries = {} THEN <<>>
    ELSE LET e == CHOOSE e \in entries : TRUE
         IN  <<e>> \o IterOrder(entries \ {e})

RECURSIVE to_data(_)
to_data(v) ==
    CASE v.ty \in IntTypes -> IntoParsedData(DInt(v.int, IntRange(v.ty)))
      [] v.ty \in {"f32", "f64"} -> IntoParsedData(DFloat(v.float))
      [] v.ty = "bool" -> IntoParsedData(DBool(v.bool))
      [] v.ty \in {"char", "String"} -> IntoParsedData(DString(v.str))
      [] v.ty = "bytes" -> IntoParsedData(DData(v.bytes))
      [] v.ty = "option" -> IF v.some THEN to_data(v.val) ELSE ParsedData(DNone, "", FALSE)
      [] v.ty = "unit" -> ParsedData(DNone, "", FALSE)
      [] v.ty = "unit_struct" -> ParsedData(DNone, v.name, FALSE)
      [] v.ty = "newtype_struct" -> to_data(v.val)
      [] v.ty = "seq" ->
            LayerEnd(ToString(Len(v.elems)),
                     [i \in 1..Len(v.elems) |-> Rename(to_data(v.elems[i]), ToString(i - 1))])
      [] v.ty = "tuple" ->
            LayerEnd(ToString(Len(v.elems)),
                     [i \in 1..Len(v.elems) |-> Rename(to_data(v.elems[i]), ToString(i - 1))])
      [] v.ty = "tuple_struct" ->
            LayerEnd(v.name, [i \in 1..Len(v.elems) |-> to_data(v.elems[i])])
      [] v.ty = "struct" ->
            LayerEnd(v.name,
                     [i \in 1..Len(v.fields) |-> Rename(to_data(v.fields[i][2]), v.fields[i][1])])
      [] v.ty = "map" ->
            LayerEnd("",
                     [i \in 1..Cardinality(v.entries) |->
                        MapEntry(to_data(IterOrder(v.entries)[i][1]), to_data(IterOrder(v.entries)[i][2]))])
      [] v.ty = "enum" /\ v.shape = "unit" -> ParsedData(DEnum(v.variant, <<>>), v.name, FALSE)
      [] v.ty = "enum" /\ v.shape = "newtype" ->
            ParsedData(DEnum(v.variant, <<to_data(v.val)>>), ToString(v.index), FALSE)
      [] v.ty = "enum" /\ v.shape = "tuple" ->
            LayerEndVariant(v.variant,
                            [i \in 1..Len(v.elems) |-> Rename(to_data(v.elems[i]), ToString(i - 1))])
      [] v.ty = "enum" /\ v.shape = "struct" ->
            LayerEndVariant(v.variant,
                            [i \in 1..Len(v.fields) |-> Rename(to_data(v.fields[i][2]), v.fields[i][1])])

----------------------------------------------------------------------------
(* Deserializer for &mut DeParser: results and errors *)

\* Ok(val), with the ParsedData as the call left it
ROk(val, data) == [ok |-> TRUE, val |-> val, data |-> data]
\* Err(err), or a panic or a loop that never ends (err.kind "panic", "diverges")
RErr(err, data) == [ok |-> FALSE, err |-> err, data |-> data]
\* Ok(Some(val)) and Ok(None) of SeqAccess and MapAccess
RSome(val, data) == [ok |-> TRUE, some |-> TRUE, val |-> val, data |-> data]
RNone(data) == [ok |-> TRUE, some |-> FALSE, data |-> data]

UnexpectedType(info) == [kind |-> "UnexpectedType", info |-> info]
SerdeError(info) == [kind |-> "SerdeError", info |-> info]
Syntax == [kind |-> "Syntax", info |-> ""]
Panic(info) == [kind |-> "panic", info |-> info]
Diverges == [kind |-> "diverges", info |-> ""]

\* vec.retain(|data| !data.need_delete)
Retain(vec) == SelectSeq(vec, LAMBDA d : ~d.need_delete)

\* the field or variant identifier a derived visitor reads: names to look up, and
\* whether an unknown name is an error (variants) or ignored (fields, as 0)
TIdentifier(names, strict) == [ty |-> "identifier", names |-> names, strict |-> strict]

NameIndex(names, s) ==
    IF \E i \in 1..Len(names) : names[i] = s
    THEN CHOOSE i \in 1..Len(names) : names[i] = s
    ELSE 0

Names(pairs) == [i \in 1..Len(pairs) |-> pairs[i][1]]
VariantNames(variants) == [i \in 1..Len(variants) |-> variants[i].variant]

\* the DataEnum variant each deserialize! method matches
MacroVariant(ty) ==
    CASE ty = "bool" -> "Bool"
      [] ty \in IntTypes -> "Int"
      [] ty \in {"f32", "f64"} -> "Float"
      [] ty = "String" -> "String"

\* t.clone() as $t, handed to the visitor of $t
MacroValue(d, ty) ==
    CASE ty = "bool" -> VBool(d.b)
      [] ty \in IntTypes -> VInt(ty, IntCast(d.value, ty))
      [] ty = "f32" -> VFloat(ty, F64AsF32(d.f))
      [] ty = "f64" -> VFloat(ty, d.f)
      [] ty = "String" -> VString(d.s)

\* deserialize!($i1, $i2, $s, $t): deserialize_bool, deserialize_i8 .. deserialize_u64,
\* deserialize_f32, deserialize_f64, deserialize_string
deserialize_macro(pd, ty) ==
    IF pd.data.k = MacroVariant(ty)
    THEN ROk(MacroValue(pd.data, ty), [pd EXCEPT !.need_delete = TRUE])
    ELSE RErr(UnexpectedType(ty), pd)

\* deserialize_char: stringify!($t) outside the macro is the text "$t"
deserialize_char(pd) ==
    IF pd.data.k = "String"
    THEN IF pd.data.s = ""
         THEN RErr(Panic("called Option::unwrap() on a None value"), pd)
         ELSE ROk(VChar(SubSeq(pd.data.s, 1, 1)), [pd EXCEPT !.need_delete = TRUE])
    ELSE RErr(UnexpectedType("$t"), pd)

\* deserialize_byte_buf
deserialize_byte_buf(pd) ==
    IF pd.data.k = "Data"
    THEN ROk(VBytes(pd.data.bytes), [pd EXCEPT !.need_delete = TRUE])
    ELSE RErr(UnexpectedType("&[u8]"), pd)

\* deserialize_unit and deserialize_unit_struct; val is what visit_unit returns
deserialize_unit(pd, val) ==
    IF pd.data.k = "None" THEN ROk(val, pd) ELSE RErr(UnexpectedType("None"), pd)

\* deserialize_newtype_struct: self.deserialize_unit(input), whose visit_unit the
\* visitor of a newtype struct does not take
deserialize_newtype_struct(pd, ty) ==
    IF pd.data.k = "None"
    THEN RErr(SerdeError("invalid type: unit value, expected tuple struct " \o ty.name), pd)
    ELSE RErr(UnexpectedType("None"), pd)

RECURSIVE De(_, _)

\* let r = <a call>; K(r)
Let(r, K(_)) == K(r)

\* r?, then K(r): an Err returns at once
Try(r, K(_)) == IF r.ok THEN K(r) ELSE r

\* T::deserialize(&mut DeParser { data: pd }) for the type ty
Deserialize(ty, pd) ==
    CASE ty.ty \in IntTypes \cup {"bool", "f32", "f64", "String"} -> deserialize_macro(pd, ty.ty)
      [] ty.ty = "char" -> deserialize_char(pd)
      [] ty.ty = "bytes" -> deserialize_byte_buf(pd)
      [] ty.ty = "unit" -> deserialize_unit(pd, VUnit)
      [] ty.ty = "unit_struct" -> deserialize_unit(pd, VUnitStruct(ty.name))
      [] ty.ty = "newtype_struct" -> deserialize_newtype_struct(pd, ty)
      [] ty.ty = "option" -> De("deserialize_option", <<pd, ty>>)
      [] ty.ty \in {"seq", "tuple", "tuple_struct"} -> De("deserialize_seq", <<pd, ty>>)
      [] ty.ty = "struct" -> De("deserialize_struct", <<pd, ty>>)
      [] ty.ty = "map" -> De("deserialize_map", <<pd, ty>>)
      [] ty.ty = "enum" -> De("deserialize_enum", <<pd, ty>>)
      [] ty.ty \in {"identifier", "ignored_any"} -> De("deserialize_any", <<pd, ty>>)

\* deserialize_option
deserialize_option(pd, ty) ==
    IF pd.data.k = "None" THEN ROk(VNone(ty.inner), pd)
    ELSE Try(De("Deserialize", <<ty.inner, pd>>), LAMBDA r : ROk(VSome(ty.inner, r.val), r.data))

\* what a visitor that does not take the call answers (Error::custom of invalid_type)
Rejected(pd, what) == RErr(SerdeError("invalid type: " \o what), pd)

\* the typed method a scalar arm of deserialize_any calls
AnyMethod(pd, method) ==
    IF method = "unit" THEN deserialize_unit(pd, VUnit)
    ELSE IF method = "bytes" THEN deserialize_byte_buf(pd)
    ELSE deserialize_macro(pd, method)

\* a scalar arm of deserialize_any: the typed method, calling a visit_ method that only
\* IgnoredAny takes; an identifier visitor takes visit_string alone
AnyScalar(pd, ty, method) ==
    CASE ty.ty = "ignored_any" -> Try(AnyMethod(pd, method), LAMBDA r : ROk(VUnit, r.data))
      [] ty.ty = "identifier" /\ method = "String" ->
            Let(NameIndex(ty.names, pd.data.s),
                LAMBDA i : IF i = 0 /\ ty.strict
                           THEN RErr(SerdeError("unknown variant " \o pd.data.s), pd)
                           ELSE ROk(i, [pd EXCEPT !.need_delete = TRUE]))
      [] ty.ty \in {"struct", "seq", "tuple", "tuple_struct", "map", "enum"} -> Rejected(pd, method)

\* the fields deserialize_any builds of the children of a Node: Map(child.name, child)
AnyFields(inner) ==
    [i \in 1..Len(inner) |->
        ParsedData(DMap(IntoParsedData(DString(inner[i].name)), inner[i]), inner[i].name, FALSE)]

\* deserialize_any (deserialize_identifier and deserialize_ignored_any are this method)
deserialize_any(pd, ty) ==
    CASE pd.data.k = "Node" ->
            IF Len(pd.data.inner) = 1 THEN De("deserialize_any", <<pd.data.inner[1], ty>>)
            ELSE IF \E i \in 1..Len(pd.data.inner) : pd.data.inner[i].name = ""
            THEN De("deserialize_seq", <<pd, ty>>)
            ELSE De("deserialize_map", <<ParsedData(DNode(AnyFields(pd.data.inner)), "", FALSE), ty>>)
      [] pd.data.k = "Map" -> De("deserialize_map", <<pd, ty>>)
      [] pd.data.k = "Enum" -> De("deserialize_enum", <<pd, ty>>)
      [] pd.data.k = "Data" -> AnyScalar(pd, ty, "bytes")
      [] pd.data.k = "String" -> AnyScalar(pd, ty, "String")
      [] pd.data.k = "Int" -> AnyScalar(pd, ty, "i64")
      [] pd.data.k = "Float" -> AnyScalar(pd, ty, "f64")
      [] pd.data.k = "Bool" -> AnyScalar(pd, ty, "bool")
      [] pd.data.k = "None" -> AnyScalar(pd, ty, "unit")

\* deserialize_seq, deserialize_tuple, deserialize_tuple_struct
deserialize_seq(pd, ty) ==
    IF pd.data.k = "Node"
    THEN De("VisitSeq", <<ty, [pd EXCEPT !.data.inner = Retain(@)]>>)
    ELSE RErr(UnexpectedType("seq"), pd)

\* deserialize_map
deserialize_map(pd, ty) ==
    IF pd.data.k = "Node" THEN De("VisitMap", <<ty, pd>>) ELSE RErr(UnexpectedType("seq"), pd)

\* a re-labelling that counts the fields from the last
RelabelFromEnd(vec, fields) ==
    [index \in 1..Len(vec) |->
        ParsedData(DMap(IntoParsedData(DString(fields[Len(vec) + 1 - index])), vec[index]), "", FALSE)]

\* the children of a struct's Node, each re-labelled Map(fields[index], child)
Relabel(vec, fields) ==
    [index \in 1..Len(vec) |->
        ParsedData(DMap(IntoParsedData(DString(fields[index])), vec[index]), "", FALSE)]

\* deserialize_struct
deserialize_struct(pd, ty) ==
    IF pd.data.k = "Node"
    THEN IF Len(pd.data.inner) > Len(ty.fields)
         THEN RErr(Panic("index out of bounds"), pd)
         ELSE De("deserialize_map",
                 <<ParsedData(DNode(Relabel(pd.data.inner, Names(ty.fields))), "", pd.need_delete), ty>>)
    ELSE RErr(UnexpectedType("struct"), pd)

\* the index of the first child
FirstIndex(vec) == 1

\* vec.len() - 1 (from 1 here): the child next_element_seed and next_key_seed take
LastIndex(vec) == Len(vec)

\* data, its children vec
WithInner(data, vec) == [data EXCEPT !.data.inner = vec]

\* next_element_seed once the last child is deserialized: the child is as the call left it
ElementTaken(d1, r) ==
    Let([d1 EXCEPT !.data.inner[LastIndex(d1.data.inner)] = r.data],
        LAMBDA d2 : IF r.ok THEN RSome(r.val, d2) ELSE RErr(r.err, d2))

\* SeqAccess for DeLayer: next_element_seed
next_element_seed(data, ty) ==
    Let(WithInner(data, Retain(data.data.inner)),
        LAMBDA d1 : IF d1.data.inner = <<>> THEN RNone(d1)
                    ELSE ElementTaken(d1, De("Deserialize",
                                             <<ty, d1.data.inner[LastIndex(d1.data.inner)]>>)))

\* next_key_seed once the key of the pair last is deserialized; temp is the value kept
\* for next_value_seed
KeyTaken(d1, last, r) ==
    IF r.ok THEN [ok |-> TRUE, some |-> TRUE, val |-> r.val, data |-> d1, temp |-> last.data.value]
    ELSE RErr(r.err, d1)

\* MapAccess for DeMap: next_key_seed
next_key_seed(data, ty) ==
    Let(WithInner(data, Retain(data.data.inner)),
        LAMBDA d1 :
            IF d1.data.inner = <<>> THEN RNone(d1)
            ELSE Let(d1.data.inner[LastIndex(d1.data.inner)],
                     LAMBDA last :
                        IF last.data.k = "Map"
                        THEN KeyTaken(d1, last, De("Deserialize", <<ty, last.data.key>>))
                        ELSE RErr(UnexpectedType("Map"), d1)))

\* next_value_seed once temp is deserialized
ValueTaken(d1, r) == IF r.ok THEN ROk(r.val, d1) ELSE RErr(r.err, d1)

\* a next_value_seed that marks nothing
MarkedNone(data) == data

\* let len = vec.len() - 1; vec[len].need_delete = true
Marked(data) == [data EXCEPT !.data.inner[Len(data.data.inner)].need_delete = TRUE]

\* MapAccess for DeMap: next_value_seed
next_value_seed(data, temp, ty) ==
    IF Len(data.data.inner) = 0 THEN RErr(Panic("attempt to subtract with overflow"), data)
    ELSE ValueTaken(Marked(data), De("Deserialize", <<ty, temp>>))

\* a visit_seq that takes elements until None (Vec<T>, IgnoredAny); acc: those taken
VisitSeqAll(elem, data, acc) ==
    Try(De("next_element_seed", <<data, elem>>),
        LAMBDA r : IF ~r.some THEN ROk(acc, r.data)
                   ELSE IF r.data = data THEN RErr(Diverges, r.data)
                   ELSE De("VisitSeqAll", <<elem, r.data, Append(acc, r.val)>>))

\* a visit_seq that takes one element per type of elems, from the i-th on
VisitSeqElems(elems, data, i, acc) ==
    IF i > Len(elems) THEN ROk(acc, data)
    ELSE Try(De("next_element_seed", <<data, elems[i]>>),
             LAMBDA r : IF ~r.some
                        THEN RErr(SerdeError("invalid length " \o ToString(i - 1)), r.data)
                        ELSE De("VisitSeqElems", <<elems, r.data, i + 1, Append(acc, r.val)>>))

FieldTypes(fields) == [i \in 1..Len(fields) |-> fields[i][2]]
WithNames(fields, vals) == [i \in 1..Len(fields) |-> <<fields[i][1], vals[i]>>]

\* Visitor::visit_seq of the type ty, over DeLayer::from(data)
VisitSeq(ty, data) ==
    CASE ty.ty = "seq" ->
            Try(De("VisitSeqAll", <<ty.elem, data, <<>> >>),
                LAMBDA r : ROk(VSeq(ty.elem, r.val), r.data))
      [] ty.ty = "tuple" ->
            Try(De("VisitSeqElems", <<ty.elems, data, 1, <<>> >>),
                LAMBDA r : ROk(VTuple(r.val), r.data))
      [] ty.ty = "tuple_struct" ->
            Try(De("VisitSeqElems", <<ty.elems, data, 1, <<>> >>),
                LAMBDA r : ROk(VTupleStruct(ty.name, r.val), r.data))
      [] ty.ty = "struct" ->
            Try(De("VisitSeqElems", <<FieldTypes(ty.fields), data, 1, <<>> >>),
                LAMBDA r : ROk(VStruct(ty.name, WithNames(ty.fields, r.val)), r.data))
      [] ty.ty = "ignored_any" ->
            Try(De("VisitSeqAll", <<TIgnoredAny, data, <<>> >>), LAMBDA r : ROk(VUnit, r.data))
      [] OTHER -> Rejected(data, "sequence")

\* the entries of a decoded map with (key, val) inserted
Inserted(entries, key, val) == {e \in entries : e[1] # key} \cup {<<key, val>>}

\* a visit_map that takes entries until None (a map type, IgnoredAny)
VisitMapEntries(keyTy, valTy, data, acc) ==
    Try(De("next_key_seed", <<data, keyTy>>),
        LAMBDA key :
            IF ~key.some THEN ROk(acc, key.data)
            ELSE Try(De("next_value_seed", <<key.data, key.temp, valTy>>),
                     LAMBDA v : De("VisitMapEntries",
                                   <<keyTy, valTy, v.data, Inserted(acc, key.val, v.val)>>)))

Unset == [set |-> FALSE]

\* the type visit_map reads the value of the key-th field with: IgnoredAny for a name
\* that is no field
ValueType(fields, key) == IF key = 0 THEN TIgnoredAny ELSE fields[key][2]

\* got, with the key-th field read as val
Got(got, key, val) ==
    IF key = 0 THEN got ELSE [got EXCEPT ![key] = [set |-> TRUE, val |-> val]]

\* the visit_map of a derived struct: got[i] is field i once its value is read
VisitMapFields(fields, data, got) ==
    Try(De("next_key_seed", <<data, TIdentifier(Names(fields), FALSE)>>),
        LAMBDA key :
            IF ~key.some THEN ROk(got, key.data)
            ELSE IF key.val # 0 /\ got[key.val].set
            THEN RErr(SerdeError("duplicate field " \o fields[key.val][1]), key.data)
            ELSE Try(De("next_value_seed", <<key.data, key.temp, ValueType(fields, key.val)>>),
                     LAMBDA v : De("VisitMapFields", <<fields, v.data, Got(got, key.val, v.val)>>)))

\* whether field i, never read, is an error: missing_field is None for an Option
Missing(fields, got, i) == ~got[i].set /\ fields[i][2].ty # "option"

\* the fields of a struct once visit_map has read them
FieldsRead(name, fields, got, data) ==
    IF \E i \in 1..Len(fields) : Missing(fields, got, i)
    THEN RErr(SerdeError("missing field "
                         \o fields[CHOOSE i \in 1..Len(fields) :
                                      /\ Missing(fields, got, i)
                                      /\ \A j \in 1..(i - 1) : ~Missing(fields, got, j)][1]),
              data)
    ELSE ROk(VStruct(name, [i \in 1..Len(fields) |->
                              <<fields[i][1],
                                IF got[i].set THEN got[i].val ELSE VNone(fields[i][2].inner)>>]),
             data)

\* Visitor::visit_map of the type ty, over DeMap::from(data)
VisitMap(ty, data) ==
    CASE ty.ty = "struct" ->
            Try(De("VisitMapFields", <<ty.fields, data, [i \in 1..Len(ty.fields) |-> Unset]>>),
                LAMBDA r : FieldsRead(ty.name, ty.fields, r.val, r.data))
      [] ty.ty = "map" ->
            Try(De("VisitMapEntries", <<ty.key, ty.val, data, {}>>),
                LAMBDA r : ROk(VMap(ty.key, ty.val, r.val), r.data))
      [] ty.ty = "ignored_any" ->
            Try(De("VisitMapEntries", <<TIgnoredAny, TIgnoredAny, data, {}>>),
                LAMBDA r : ROk(VUnit, r.data))
      [] OTHER -> Rejected(data, "map")

\* Error::custom of serde's invalid_type(Unexpected::UnitVariant, expected)
UnitOnlyMessage(shape) == SerdeError("invalid type: unit variant, expected " \o shape \o " variant")

\* a unit-only variant access that answers a request for a payload with Error::Syntax
UnitOnlySyntax(shape) == Syntax

\* what UnitOnly, the VariantAccess of value.into_deserializer(), answers to a request
\* for a payload
UnitOnlyError(shape) == UnitOnlyMessage(shape)

\* the variants IgnoredAny reads an enum with: whatever the name, a newtype of IgnoredAny
VariantsOf(ty, name) ==
    IF ty.ty = "ignored_any" THEN <<NewtypeV(name, TIgnoredAny)>> ELSE ty.variants

\* the result of VariantAccess, as the value of the enum (pd is left alone)
VariantRead(pd, r, val) == IF r.ok THEN ROk(val, pd) ELSE RErr(r.err, pd)

\* the VariantAccess call the visitor makes for the variant v, index its number, on an
\* Enum with the payload inner
VariantAccess(ty, pd, inner, v, index) ==
    IF inner = <<>>
    THEN IF v.shape = "unit" THEN ROk(VUnitVariant(ty, index), pd)
         ELSE RErr(UnitOnlyError(v.shape), pd)
    ELSE CASE v.shape = "unit" -> RErr(Syntax, pd)
           [] v.shape = "newtype" ->
                 Let(De("Deserialize", <<v.inner, inner[1]>>),
                     LAMBDA r : VariantRead(pd, r, IF ty.ty = "ignored_any" THEN VUnit
                                                   ELSE VNewtypeVariant(ty, index, r.val)))
           [] v.shape = "tuple" ->
                 Let(De("deserialize_seq", <<ParsedData(DNode(inner), "", FALSE), TTuple(v.elems)>>),
                     LAMBDA r : VariantRead(pd, r, VTupleVariant(ty, index, r.val.elems)))
           [] v.shape = "struct" ->
                 Let(De("deserialize_any",
                        <<ParsedData(DNode(inner), "", FALSE), TStruct(v.variant, v.fields)>>),
                     LAMBDA r : VariantRead(pd, r, VStructVariant(ty, index, r.val.fields)))

\* Visitor::visit_enum of the enum ty (derived), over the EnumAccess deserialize_enum
\* gives it: value.into_deserializer() for an empty payload, DeEnum otherwise
VisitEnum(ty, pd) ==
    Let(De("Deserialize", <<TIdentifier(VariantNames(VariantsOf(ty, pd.data.variant)), TRUE),
                            IntoParsedData(DString(pd.data.variant))>>),
        LAMBDA id :
            IF ~id.ok THEN RErr(id.err, pd)
            ELSE VariantAccess(ty, pd, pd.data.inner,
                               VariantsOf(ty, pd.data.variant)[id.val], id.val - 1))

\* deserialize_enum
deserialize_enum(pd, ty) ==
    IF pd.data.k = "Enum"
    THEN IF ty.ty \in {"enum", "ignored_any"} THEN De("VisitEnum", <<ty, pd>>)
         ELSE Rejected(pd, "enum")
    ELSE RErr(UnexpectedType("enum"), pd)

\* one method of the Deserializer, of an access or of a visitor, called by another:
\* a names the arguments in the order the method takes them
De(method, a) ==
    CASE method = "Deserialize" -> Deserialize(a[1], a[2])
      [] method = "deserialize_any" -> deserialize_any(a[1], a[2])
      [] method = "deserialize_option" -> deserialize_option(a[1], a[2])
      [] method = "deserialize_seq" -> deserialize_seq(a[1], a[2])
      [] method = "deserialize_map" -> deserialize_map(a[1], a[2])
      [] method = "deserialize_struct" -> deserialize_struct(a[1], a[2])
      [] method = "deserialize_enum" -> deserialize_enum(a[1], a[2])
      [] method = "next_element_seed" -> next_element_seed(a[1], a[2])
      [] method = "next_key_seed" -> next_key_seed(a[1], a[2])
      [] method = "next_value_seed" -> next_value_seed(a[1], a[2], a[3])
      [] method = "VisitSeqAll" -> VisitSeqAll(a[1], a[2], a[3])
      [] method = "VisitSeqElems" -> VisitSeqElems(a[1], a[2], a[3], a[4])
      [] method = "VisitSeq" -> VisitSeq(a[1], a[2])
      [] method = "VisitMapEntries" -> VisitMapEntries(a[1], a[2], a[3], a[4])
      [] method = "VisitMapFields" -> VisitMapFields(a[1], a[2], a[3])
      [] method = "VisitMap" -> VisitMap(a[1], a[2])
      [] method = "VisitEnum" -> VisitEnum(a[1], a[2])

\* from_data::<T>(input), T the type ty
from_data(input, ty) == De("Deserialize", <<ty, input>>)

----------------------------------------------------------------------------
(* HashMap<String, _> as a function from its keys *)

EmptyMap == <<>>
MapInsert(m, key, v) == [x \in (DOMAIN m) \cup {key} |-> IF x = key THEN v ELSE m[x]]
\* an is_empty that never answers true
MapNeverEmpty(m) == FALSE
MapIsEmpty(m) == DOMAIN m = {}

\* a PathID that forgets the path above the node
PathIdOfName(id, name) == "----" \o name

\* format!("{}----{}", id, data.name)
PathId(id, name) == id \o "----" \o name

\* a walker that stores x without the clamp
CompressUnclamped(x, range) == x

\* the clamp the walkers apply to an Int leaf: x into range
Compress(x, range) ==
    IF ZGt(x, range.end) THEN range.end
    ELSE IF ZLt(x, range.start) THEN range.start
    ELSE x

----------------------------------------------------------------------------
(* apply_delta_data *)

\* the exact sum of *t as i128 + *value, before i128 wraps it
DeltaSum(t, value) == ZAdd(FloatAsI128(t), value)

\* the Int arm: *value = compress(*t as i128 + *value), the sum wrapping in i128
ApplyDeltaInt(value, range, t) == Compress(WrapI128(DeltaSum(t, value)), range)

\* the Float arm: *value += *t
ApplyDeltaFloat(f, t) == F64Add(f, t)

\* a Map arm that writes the walked value over the key as well
MapWalkedOverKey(data, inner) == [data EXCEPT !.data.key = inner, !.data.value = inner]

\* the Map arm: *box_inside = Box::new((key, inner)), inner the walked value
MapWalked(data, inner) == [data EXCEPT !.data.value = inner]

RECURSIVE apply_delta_data(_, _, _)
apply_delta_data(id0, data, map) ==
    LET id == PathId(id0, data.name)
    IN  CASE data.data.k \in {"Node", "Enum"} ->
              [data EXCEPT !.data.inner = [i \in 1..Len(@) |-> apply_delta_data(id, @[i], map)]]
          [] data.data.k = "Map" ->
              MapWalked(data, apply_delta_data(id, data.data.value, map))
          [] data.data.k = "Int" ->
              IF id \in DOMAIN map
              THEN [data EXCEPT !.data.value = ApplyDeltaInt(@, data.data.range, map[id])]
              ELSE data
          [] data.data.k = "Float" ->
              IF id \in DOMAIN map
              THEN [data EXCEPT !.data.f = ApplyDeltaFloat(@, map[id])]
              ELSE data
          [] OTHER -> data

RECURSIVE ApplyDeltaOverflows(_, _, _)
\* whether some *t as i128 + *value of the walk overflows i128 (a panic where
\* overflow checks are compiled in, a wrap where they are not)
ApplyDeltaOverflows(id0, data, map) ==
    LET id == PathId(id0, data.name)
    IN  CASE data.data.k \in {"Node", "Enum"} ->
              \E i \in 1..Len(data.data.inner) : ApplyDeltaOverflows(id, data.data.inner[i], map)
          [] data.data.k = "Map" -> ApplyDeltaOverflows(id, data.data.value, map)
          [] data.data.k = "Int" ->
              id \in DOMAIN map /\ ~InI128(DeltaSum(map[id], data.data.value))
          [] OTHER -> FALSE

----------------------------------------------------------------------------
(* nablo_shape's Animation, as animation_caculate uses it.  A curve is its *)
(* start_time, its length, its two boundary values, and the set of         *)
(* whether it is empty, and the set of durations at which caculate yields  *)
(* a sample (sampled) with the value it yields there (mid).                *)

Animation(start_time, length, start_value, end_value, empty, sampled, mid) ==
    [start_time |-> start_time, length |-> length, start_value |-> start_value,
     end_value |-> end_value, empty |-> empty, sampled |-> sampled, mid |-> mid]

\* t.caculate(duration): Some(x) or None
AnimationSample(t, duration) ==
    IF duration \in t.sampled THEN [some |-> TRUE, x |-> t.mid] ELSE [some |-> FALSE]
\* t.len()
AnimationLen(t) == t.length
\* t.is_empty()
AnimationIsEmpty(t) == t.empty
\* t.end_value()
AnimationEndValue(t) == t.end_value

\* the Int arm's second test: duration > &t.len()
IntPastEnd(t, duration) == duration > AnimationLen(t) /\ ~AnimationIsEmpty(t)
\* the Float arm's second test: duration > &(t.len() + t.start_time)
FloatPastEnd(t, duration) == duration > AnimationLen(t) + t.start_time /\ ~AnimationIsEmpty(t)
\* the third test of both arms: duration < &t.start_time
BeforeStart(t, duration) == duration < t.start_time /\ ~AnimationIsEmpty(t)

AnimateInt(value, range, t, duration) ==
    LET s == AnimationSample(t, duration)
    IN  IF s.some THEN Compress(FloatAsI128(s.x), range)
        ELSE IF IntPastEnd(t, duration) THEN Compress(FloatAsI128(AnimationEndValue(t)), range)
        ELSE IF BeforeStart(t, duration) THEN Compress(FloatAsI128(t.start_value), range)
        ELSE value

AnimateFloat(f, t, duration) ==
    LET s == AnimationSample(t, duration)
    IN  IF s.some THEN s.x
        ELSE IF FloatPastEnd(t, duration) THEN AnimationEndValue(t)
        ELSE IF BeforeStart(t, duration) THEN t.start_value
        ELSE f

\* an id that leaves the delimiter out
AnimationIdBare(id, name) == id \o name

\* animation_caculate's let id = format!("{}----{}", id, data.name)
AnimationId(id, name) == PathId(id, name)

RECURSIVE animation_caculate(_, _, _, _)
animation_caculate(id0, data, duration, map) ==
    LET id == AnimationId(id0, data.name)
    IN  CASE data.data.k \in {"Node", "Enum"} ->
              [data EXCEPT !.data.inner =
                  [i \in 1..Len(@) |-> animation_caculate(id, @[i], duration, map)]]
          [] data.data.k = "Map" ->
              [data EXCEPT !.data.value = animation_caculate(id, @, duration, map)]
          [] data.data.k = "Int" ->
              IF id \in DOMAIN map
              THEN [data EXCEPT !.data.value = AnimateInt(@, data.data.range, map[id], duration)]
              ELSE data
          [] data.data.k = "Float" ->
              IF id \in DOMAIN map
              THEN [data EXCEPT !.data.f = AnimateFloat(@, map[id], duration)]
              ELSE data
          [] OTHER -> data

----------------------------------------------------------------------------
(* caculate_delta_data *)

\* the Int arm: the entry (lvalue - rvalue) as f64
DeltaOfInt(lvalue, rvalue) == I128AsF64(WrapI128(ZSub(lvalue, rvalue)))
\* the Float arm: the entry lvalue - rvalue
DeltaOfFloat(lvalue, rvalue) == F64Sub(lvalue, rvalue)

RECURSIVE caculate_delta_data(_, _, _, _)
RECURSIVE caculate_delta_zip(_, _, _, _, _)

\* for (linside, rinside) in linner.into_iter().zip(rinner.into_iter()), from pair i on
caculate_delta_zip(linner, rinner, i, map, id) ==
    IF i > Len(linner) \/ i > Len(rinner) THEN map
    ELSE caculate_delta_zip(linner, rinner, i + 1,
                            caculate_delta_data(linner[i], rinner[i], map, id), id)

caculate_delta_data(left, right, map, id0) ==
    LET id == PathId(id0, left.name)
        l  == left.data
        r  == right.data
    IN  CASE l.k = "Node" /\ r.k = "Node" -> caculate_delta_zip(l.inner, r.inner, 1, map, id)
          [] l.k = "Map" /\ r.k = "Map" -> caculate_delta_data(l.value, r.value, map, id)
          [] l.k = "Enum" /\ r.k = "Enum" -> caculate_delta_zip(l.inner, r.inner, 1, map, id)
          [] l.k = "Int" /\ r.k = "Int" ->
              IF l.value # r.value THEN MapInsert(map, id, DeltaOfInt(l.value, r.value)) ELSE map
          [] l.k = "Float" /\ r.k = "Float" ->
              IF F64Ne(l.f, r.f) THEN MapInsert(map, id, DeltaOfFloat(l.f, r.f)) ELSE map
          [] OTHER -> map

----------------------------------------------------------------------------
(* The leaves a walker visits, with the PathID it looks each up under *)

RECURSIVE Leaves(_, _)
RECURSIVE LeavesOfAll(_, _, _)
LeavesOfAll(id, inner, i) ==
    IF i > Len(inner) THEN <<>> ELSE Leaves(id, inner[i]) \o LeavesOfAll(id, inner, i + 1)
Leaves(id0, data) ==
    LET id == PathId(id0, data.name)
    IN  CASE data.data.k \in {"Node", "Enum"} -> LeavesOfAll(id, data.data.inner, 1)
          [] data.data.k = "Map" -> Leaves(id, data.data.value)
          [] OTHER -> <<[path |-> id, leaf |-> data]>>

IsNumeric(pd) == pd.data.k \in {"Int", "Float"}
NumericLeaves(data) == SelectSeq(Leaves("", data), LAMBDA e : IsNumeric(e.leaf))
NumericPaths(data) == {NumericLeaves(data)[i].path : i \in 1..Len(NumericLeaves(data))}

----------------------------------------------------------------------------
(* State *)

VARIABLES
    pc,        \* what the last step was
    value,     \* the value of the caller: what to_data was given, the target of apply_delta
    data,      \* the ParsedData under the walkers or the decoder
    op,        \* the inputs of the last call
    steps,     \* calls made so far
    result,    \* what the last call returned
    calls,     \* how many times the last call ran to_data and from_data
    received   \* what the visitor of a sequence has been handed so far

walkVars == <<pc, value, data, op, steps>>
apiVars == <<result, calls>>
vars == <<walkVars, apiVars, received>>

\* walker calls per tree
MaxSteps == 2

Position(x, y) == VStruct("Position", <<<<"x", VInt("i32", ZOf(x))>>, <<"y", VFloat("f32", FOfInt(y))>>>>)
Circle(radius) == VStruct("Circle", <<<<"radius", VInt("u8", ZOf(radius))>>>>)
Wide == VStruct("Wide", <<<<"lo", VInt("i64", IntMin("i64"))>>, <<"hi", VInt("u64", IntMax("u64"))>>>>)
ShapeEnum ==
    TEnum("Shape", <<UnitV("Idle"), NewtypeV("Scaled", T("i16")),
                     TupleV("Pair", <<T("i8"), T("i8")>>),
                     StructV("Rect", <<<<"w", T("u8")>>, <<"h", T("u8")>>>>)>>)
Bag ==
    VStruct("Bag", <<<<"t", VTuple(<<VInt("i8", ZOf(127)), VFloat("f64", FHalves(5))>>)>>,
                     <<"e", VNewtypeVariant(ShapeEnum, 1, VInt("i16", ZOf(-7)))>>,
                     <<"m", VMap(T("String"), T("u32"), {<<VString("k"), VInt("u32", ZOf(9))>>})>>,
                     <<"s", VString("txt")>>,
                     <<"b", VBool(TRUE)>>>>)

\* leaves of every kind the walkers skip, an Int under each aggregate, an Int as a key
Misc ==
    VStruct("Misc", <<<<"raw", VBytes(<<1, 2>>)>>,
                      <<"none", VNone(T("u8"))>>,
                      <<"idle", VUnitVariant(ShapeEnum, 0)>>,
                      <<"rect", VStructVariant(ShapeEnum, 3, <<<<"w", VInt("u8", ZOf(1))>>,
                                                                 <<"h", VInt("u8", ZOf(2))>>>>)>>,
                      <<"ages", VMap(T("u8"), T("u8"), {<<VInt("u8", ZOf(3)), VInt("u8", ZOf(4))>>})>>,
                      <<"f", VFloat("f64", FHalves(5))>>>>)

WalkValues == {Position(4, 2), Circle(0), Wide, Bag, Misc}

\* 2^127 and -2^127 as f64
FPow127(neg) == FFin(neg, UPow2(128))
DeltaValues == {FOfInt(6), FHalves(-1), FNaN, FPow127(FALSE), FInf(TRUE)}

ConstMap(keys, v) == [x \in keys |-> v]
\* the PathIDs of the root and of the leaves that are neither Int nor Float
SkippedPaths(d) ==
    {PathId("", d.name)}
    \cup {Leaves("", d)[i].path : i \in {j \in 1..Len(Leaves("", d)) : ~IsNumeric(Leaves("", d)[j].leaf)}}
FirstPath(d) == IF NumericLeaves(d) = <<>> THEN {} ELSE {NumericLeaves(d)[1].path}
DeltaMaps(d) ==
    {ConstMap(NumericPaths(d), t) : t \in DeltaValues}
    \cup {ConstMap(FirstPath(d), t) : t \in DeltaValues}
    \cup {ConstMap({"----x"}, FOfInt(6))}
    \cup {ConstMap(FirstPath(d) \cup SkippedPaths(d), FOfInt(6))}

Durations == {0, 1, 3, 7}
Curves ==
    { Animation(0, 1, FOfInt(0), FOfInt(100), FALSE, {0, 1}, FOfInt(50)),
      Animation(5, 1, FOfInt(10), FOfInt(100), FALSE, {5, 6}, FOfInt(60)),
      Animation(2, 4, FHalves(-5), FOfInt(300), FALSE, {3}, FHalves(-257)),
      Animation(0, 0, FOfInt(1), FOfInt(2), TRUE, {}, FOfInt(0)) }
AnimationMaps(d) == {ConstMap(NumericPaths(d), c) : c \in Curves}

NoOp == [name |-> "none"]
NoResult == [ok |-> TRUE, val |-> VUnit]
NoCalls == [to_data |-> 0, from_data |-> 0]

WalkInit ==
    /\ pc = "init"
    /\ value = VUnit
    /\ data = DefaultParsedData
    /\ op = NoOp
    /\ steps = 0
    /\ result = NoResult
    /\ calls = NoCalls
    /\ received = <<>>

\* to_data(input)
ToData(v) ==
    /\ pc = "init"
    /\ pc' = "to_data"
    /\ value' = v
    /\ data' = to_data(v)
    /\ op' = NoOp
    /\ steps' = 0
    /\ UNCHANGED <<apiVars, received>>

\* apply_delta_data(&String::new(), &mut data, map); checked: whether the build
\* panics on integer overflow
ApplyDeltaData(map, checked) ==
    /\ pc \in {"to_data", "apply_delta_data", "animation_caculate"}
    /\ steps < MaxSteps
    /\ steps' = steps + 1
    /\ op' = [name |-> "apply_delta_data", map |-> map]
    /\ IF checked /\ ApplyDeltaOverflows("", data, map)
       THEN pc' = "panic" /\ UNCHANGED data
       ELSE pc' = "apply_delta_data" /\ data' = apply_delta_data("", data, map)
    /\ UNCHANGED <<value, apiVars, received>>

\* animation_caculate(&String::new(), &mut data, duration, map)
AnimationCaculate(duration, map) ==
    /\ pc \in {"to_data", "apply_delta_data", "animation_caculate"}
    /\ steps < MaxSteps
    /\ steps' = steps + 1
    /\ op' = [name |-> "animation_caculate", duration |-> duration, map |-> map]
    /\ pc' = "animation_caculate"
    /\ data' = animation_caculate("", data, duration, map)
    /\ UNCHANGED <<value, apiVars, received>>

Next ==
    \/ \E v \in WalkValues : ToData(v)
    \/ \E map \in DeltaMaps(data), checked \in BOOLEAN : ApplyDeltaData(map, checked)
    \/ \E duration \in Durations, map \in AnimationMaps(data) : AnimationCaculate(duration, map)

Spec == WalkInit /\ [][Next]_vars

----------------------------------------------------------------------------
(* caculate_delta, apply_delta and CanBeAnimated::caculate on a value *)

\* caculate_delta(left, right), once both to_data calls have returned
caculate_delta(left, right) == caculate_delta_data(to_data(left), to_data(right), EmptyMap, "")

\* calls of the API on one value
MaxCalls == 2

Span(a, b) == VStruct("Span", <<<<"p", VTuple(<<VInt("i32", ZOf(a)), VInt("i32", ZOf(b))>>)>>>>)
Outer(x, k) == VStruct("Outer", <<<<"inner", Position(x, 2)>>, <<"k", VInt("u8", ZOf(k))>>>>)
Big(n) == VStruct("Big", <<<<"n", VInt("i64", n)>>>>)
Level(f) == VStruct("Level", <<<<"f", VFloat("f64", f)>>>>)
Samples(a, b) == VStruct("Samples", <<<<"v", VSeq(T("u8"), <<VInt("u8", ZOf(a)), VInt("u8", ZOf(b))>>)>>>>)
\* 2^53 + 1
Pow53Plus1 == ZAdd(Z(FALSE, UPow2(53)), ZOf(1))

ApiValues ==
    { Position(4, 2), Position(10, 2), Span(4, 20), Span(10, 20), Outer(4, 7), Outer(10, 9),
      Big(ZOf(0)), Big(Pow53Plus1), Level(FNaN), Level(FHalves(3)), Samples(5, 5), Bag,
      VUnitVariant(ShapeEnum, 0), VSeq(T("i16"), <<VInt("i16", ZOf(-3))>>) }

SameType(v) == {w \in ApiValues : TypeOf(w) = TypeOf(v)}

ApiDeltaMaps(v) ==
    { EmptyMap, ConstMap({"----x"}, FOfInt(6)), ConstMap({"----Position----x"}, FOfInt(6)),
      ConstMap(NumericPaths(to_data(v)), FPow127(FALSE)) }
    \cup {caculate_delta(w, v) : w \in SameType(v)}

ApiCurves == {Animation(0, 1, FOfInt(0), FOfInt(100), FALSE, {0, 1}, FOfInt(50))}
ApiAnimationMaps(v) == {EmptyMap} \cup {ConstMap(NumericPaths(to_data(v)), c) : c \in ApiCurves}
ApiDurations == {1, 3}

DeltaInit ==
    /\ pc = "init"
    /\ value \in ApiValues
    /\ data = DefaultParsedData
    /\ op = NoOp
    /\ steps = 0
    /\ result = NoResult
    /\ calls = NoCalls
    /\ received = <<>>

ApiEnabled == pc \in {"init", "caculate_delta", "apply_delta", "caculate"} /\ steps < MaxCalls

\* caculate_delta(&left, &value)
CaculateDelta(left) ==
    /\ ApiEnabled
    /\ pc' = "caculate_delta"
    /\ steps' = steps + 1
    /\ op' = [name |-> "caculate_delta", left |-> left, right |-> value]
    /\ result' = ROk(caculate_delta(left, value), to_data(value))
    /\ calls' = [to_data |-> 2, from_data |-> 0]
    /\ data' = to_data(value)
    /\ UNCHANGED <<value, received>>

\* the body both apply_delta and caculate share after the is_empty test: to_data, the
\* walk (walked: the tree it leaves), from_data, and the assignment to the target
Assign(r) ==
    /\ result' = (IF r.ok THEN ROk(VUnit, r.data) ELSE r)
    /\ value' = (IF r.ok THEN r.val ELSE value)
    /\ data' = r.data
    /\ calls' = [to_data |-> 1, from_data |-> 1]
RoundTrip(walked) == Assign(from_data(walked, TypeOf(value)))

\* apply_delta(&mut value, &delta_map); checked: whether the build panics on integer
\* overflow
ApplyDelta(delta_map, checked) ==
    /\ ApiEnabled
    /\ pc' = "apply_delta"
    /\ steps' = steps + 1
    /\ op' = [name |-> "apply_delta", input |-> value, map |-> delta_map]
    /\ IF MapIsEmpty(delta_map)
       THEN /\ result' = ROk(VUnit, data)
            /\ calls' = NoCalls
            /\ UNCHANGED <<value, data>>
       ELSE IF checked /\ ApplyDeltaOverflows("", to_data(value), delta_map)
       THEN /\ result' = RErr(Panic("attempt to add with overflow"), to_data(value))
            /\ calls' = [to_data |-> 1, from_data |-> 0]
            /\ data' = to_data(value)
            /\ UNCHANGED value
       ELSE RoundTrip(apply_delta_data("", to_data(value), delta_map))
    /\ UNCHANGED received

\* CanBeAnimated::caculate(&mut self, &duration), self holding value and map
Caculate(duration, map) ==
    /\ ApiEnabled
    /\ pc' = "caculate"
    /\ steps' = steps + 1
    /\ op' = [name |-> "caculate", input |-> value, map |-> map, duration |-> duration]
    /\ IF MapIsEmpty(map)
       THEN /\ result' = ROk(VUnit, data)
            /\ calls' = NoCalls
            /\ UNCHANGED <<value, data>>
       ELSE RoundTrip(animation_caculate("", to_data(value), duration, map))
    /\ UNCHANGED received

NextDelta ==
    \/ \E left \in SameType(value) : CaculateDelta(left)
    \/ \E delta_map \in ApiDeltaMaps(value), checked \in BOOLEAN : ApplyDelta(delta_map, checked)
    \/ \E duration \in ApiDurations, map \in ApiAnimationMaps(value) : Caculate(duration, map)

SpecDelta == DeltaInit /\ [][NextDelta]_vars

----------------------------------------------------------------------------
(* from_data, and the Deserializer a call at a time *)

Leaf(d, name, need_delete) == ParsedData(d, name, need_delete)
IntLeaf(n, ty) == DInt(ZOf(n), IntRange(ty))

Plain ==
    VStruct("Plain", <<<<"b", VBool(TRUE)>>, <<"s", VString("txt")>>, <<"n", VInt("i16", ZOf(-7))>>,
                       <<"f", VFloat("f64", FHalves(5))>>, <<"u", VInt("u64", IntMax("u64"))>>>>)
Maybe(a) == VStruct("Maybe", <<<<"a", VSome(T("u8"), VInt("u8", ZOf(a)))>>, <<"z", VNone(T("u8"))>>>>)

DecodeValues ==
    { Plain, Position(4, 2), Wide, Circle(0), Level(FNaN), Span(4, 20), Samples(1, 2), Bag, Maybe(3),
      Outer(4, 7), VNewtypeStruct("Meters", VInt("u8", ZOf(1))),
      VStructVariant(ShapeEnum, 3, <<<<"w", VInt("u8", ZOf(1))>>, <<"h", VInt("u8", ZOf(2))>>>>) }

ScalarLeaves ==
    { Leaf(DBool(TRUE), "", FALSE), Leaf(IntLeaf(5, "u8"), "", FALSE), Leaf(IntLeaf(300, "i32"), "", FALSE),
      Leaf(DString("a"), "", FALSE), Leaf(DString(""), "", FALSE), Leaf(DFloat(FHalves(5)), "", FALSE),
      Leaf(DFloat(FNaN), "x", FALSE) }
ScalarTypes == {T(ty) : ty \in IntTypes \cup {"bool", "f32", "f64", "String", "char"}}

Payloads ==
    { <<>>, <<Leaf(IntLeaf(-7, "i16"), "1", FALSE)>>,
      <<Leaf(IntLeaf(1, "i8"), "0", FALSE), Leaf(IntLeaf(2, "i8"), "1", FALSE)>>,
      <<Leaf(IntLeaf(1, "u8"), "w", FALSE), Leaf(IntLeaf(2, "u8"), "h", FALSE)>> }
EnumNodes ==
    {Leaf(DEnum(name, inner), "", FALSE) : name \in {"Idle", "Scaled", "Pair", "Rect", "Gone"},
                                           inner \in Payloads}
    \cup {Leaf(DString("Idle"), "", FALSE)}

SeqNodes ==
    { Leaf(DNode(<<Leaf(IntLeaf(1, "u8"), "0", FALSE), Leaf(IntLeaf(2, "u8"), "1", FALSE),
                   Leaf(IntLeaf(3, "u8"), "2", FALSE)>>), "3", FALSE),
      Leaf(DNode(<<Leaf(IntLeaf(1, "u8"), "0", TRUE), Leaf(DString("a"), "1", FALSE),
                   Leaf(DBool(TRUE), "2", FALSE), Leaf(DFloat(FHalves(5)), "3", FALSE)>>), "4", FALSE),
      Leaf(DNode(<<Leaf(IntLeaf(5, "u8"), "0", FALSE), Leaf(IntLeaf(6, "u8"), "1", TRUE)>>), "2", FALSE),
      Leaf(DNode(<<>>), "0", FALSE),
      Leaf(DString("a"), "", FALSE) }
ElementTypes == {T("u8"), T("String"), T("bool"), T("f64")}

DecodeInit == WalkInit

\* from_data::<T>(&mut to_data(&v)?) for the type T of v
FromData(v) ==
    /\ pc = "init"
    /\ pc' = "from_data"
    /\ value' = v
    /\ op' = [name |-> "from_data", ty |-> TypeOf(v)]
    /\ result' = from_data(to_data(v), TypeOf(v))
    /\ data' = result'.data
    /\ calls' = [to_data |-> 1, from_data |-> 1]
    /\ UNCHANGED <<steps, received>>

\* <ty as Deserialize>::deserialize(&mut DeParser { data: &mut leaf })
DeserializeScalar(leaf, ty) ==
    /\ pc = "init"
    /\ pc' = "deserialize"
    /\ op' = [name |-> "deserialize", leaf |-> leaf, ty |-> ty]
    /\ result' = De("Deserialize", <<ty, leaf>>)
    /\ data' = result'.data
    /\ UNCHANGED <<value, steps, calls, received>>

\* DeParser { data: &mut node }.deserialize_enum(_, _, visitor of the enum ty)
DeserializeEnum(node, ty) ==
    /\ pc = "init"
    /\ pc' = "deserialize_enum"
    /\ op' = [name |-> "deserialize_enum", node |-> node, ty |-> ty]
    /\ result' = De("deserialize_enum", <<node, ty>>)
    /\ data' = result'.data
    /\ UNCHANGED <<value, steps, calls, received>>

\* DeParser { data: &mut node }.deserialize_seq(visitor), up to the visit_seq call
DeserializeSeq(node) ==
    /\ pc = "init"
    /\ op' = [name |-> "deserialize_seq", node |-> node]
    /\ received' = <<>>
    /\ IF node.data.k = "Node"
       THEN /\ pc' = "visit_seq"
            /\ data' = WithInner(node, Retain(node.data.inner))
            /\ UNCHANGED result
       ELSE /\ pc' = "seq_err"
            /\ data' = node
            /\ result' = RErr(UnexpectedType("seq"), node)
    /\ UNCHANGED <<value, steps, calls>>

\* what a next_element_seed call leaves: an element more, the end, or an error
Element(ty, r) ==
    /\ data' = r.data
    /\ result' = r
    /\ pc' = (IF ~r.ok THEN "seq_err" ELSE IF r.some THEN "visit_seq" ELSE "seq_end")
    /\ received' = (IF r.ok /\ r.some THEN Append(received, [ty |-> ty, val |-> r.val]) ELSE received)

\* the visitor's seq.next_element::<ty>()
NextElement(ty) ==
    /\ pc = "visit_seq"
    /\ Element(ty, De("next_element_seed", <<data, ty>>))
    /\ UNCHANGED <<value, op, steps, calls>>

NextDecode ==
    \/ \E v \in DecodeValues : FromData(v)
    \/ \E leaf \in ScalarLeaves, ty \in ScalarTypes : DeserializeScalar(leaf, ty)
    \/ \E node \in EnumNodes : DeserializeEnum(node, ShapeEnum)
    \/ \E node \in SeqNodes : DeserializeSeq(node)
    \/ \E ty \in ElementTypes : NextElement(ty)

SpecDecode == DecodeInit /\ [][NextDecode]_vars

----------------------------------------------------------------------------
(* SeqAccess for DeLayer and MapAccess for DeMap, a visitor call at a time *)

\* elements or entries a visitor asks for before it is stopped here
MaxElements == 5

U8(n) == VInt("u8", ZOf(n))

\* Vec<T> values of each kind of child: Option, (), Vec, a struct, an enum, u8
SeqValues ==
    { VSeq(TOption(T("u8")), <<VSome(T("u8"), U8(1)), VNone(T("u8")), VSome(T("u8"), U8(3))>>),
      VSeq(TOption(T("u8")), <<VNone(T("u8"))>>),
      VSeq(T("unit"), <<VUnit, VUnit>>),
      VSeq(TSeq(T("u8")), <<VSeq(T("u8"), <<U8(1), U8(2)>>), VSeq(T("u8"), <<>>)>>),
      VSeq(TypeOf(Circle(0)), <<Circle(1), Circle(2)>>),
      VSeq(ShapeEnum, <<VUnitVariant(ShapeEnum, 0), VNewtypeVariant(ShapeEnum, 1, VInt("i16", ZOf(-7)))>>),
      VSeq(T("u8"), <<U8(1), U8(2), U8(3)>>),
      VSeq(T("u8"), <<>>) }

\* the entry serialize_key and serialize_value push for a String key and a value
Pair(key, v) == MapEntry(to_data(VString(key)), to_data(v))

\* Nodes for deserialize_map: of pairs, of none, with a child that is no pair, and a leaf
MapNodes ==
    { LayerEnd("", <<Pair("a", U8(1)), Pair("b", U8(2)), Pair("c", U8(3))>>),
      LayerEnd("", <<Pair("k", VString("v")), Pair("k", VBool(TRUE))>>),
      LayerEnd("", <<Pair("a", U8(1))>>),
      LayerEnd("", <<>>),
      LayerEnd("", <<Pair("a", U8(1)), Rename(to_data(U8(2)), "b"), Pair("c", U8(3))>>),
      LayerEnd("", <<Rename(to_data(U8(2)), "b")>>),
      to_data(U8(2)) }
KeyTypes == {T("String"), T("bool")}
ValueTypes == {T("u8"), T("i64"), T("String"), T("bool")}

AccessInit == WalkInit

\* DeParser { data: &mut to_data(&v)? }.deserialize_seq(visitor), up to the visit_seq call
VisitSeqOf(v) ==
    /\ pc = "init"
    /\ pc' = "visit_seq"
    /\ op' = [name |-> "deserialize_seq", node |-> to_data(v), ty |-> v.elem]
    /\ data' = WithInner(to_data(v), Retain(to_data(v).data.inner))
    /\ received' = <<>>
    /\ UNCHANGED <<value, steps, result, calls>>

\* the visitor's seq.next_element::<T>(), T the element type of the Vec
NextElementOf ==
    /\ pc = "visit_seq"
    /\ "ty" \in DOMAIN op
    /\ Len(received) < MaxElements
    /\ Element(op.ty, De("next_element_seed", <<data, op.ty>>))
    /\ UNCHANGED <<value, op, steps, calls>>

\* DeParser { data: &mut node }.deserialize_map(visitor), up to the visit_map call
DeserializeMap(node) ==
    /\ pc = "init"
    /\ op' = [name |-> "deserialize_map", node |-> node]
    /\ data' = node
    /\ received' = <<>>
    /\ IF node.data.k = "Node"
       THEN pc' = "visit_map" /\ UNCHANGED result
       ELSE pc' = "map_err" /\ result' = RErr(UnexpectedType("seq"), node)
    /\ UNCHANGED <<value, steps, calls>>

\* what a next_key_seed call leaves: a key (and temp), the end, or an error
Key(r) ==
    /\ data' = r.data
    /\ result' = r
    /\ pc' = (IF ~r.ok THEN "map_err" ELSE IF r.some THEN "map_value" ELSE "map_end")

\* the visitor's map.next_key::<K>()
NextKey(ty) ==
    /\ pc = "visit_map"
    /\ Key(De("next_key_seed", <<data, ty>>))
    /\ op' = [name |-> "next_key_seed", node |-> op.node]
    /\ UNCHANGED <<value, steps, calls, received>>

\* what a next_value_seed call leaves: the entry is the visitor's, or an error
Value(key, ty, r) ==
    /\ data' = r.data
    /\ result' = r
    /\ pc' = (IF r.ok THEN "visit_map" ELSE "map_err")
    /\ received' = (IF r.ok THEN Append(received, [key |-> key, ty |-> ty, val |-> r.val])
                    ELSE received)

\* the visitor's map.next_value::<V>(), after a next_key that gave a key
NextValue(ty) ==
    /\ pc = "map_value"
    /\ Value(result.val, ty, De("next_value_seed", <<data, result.temp, ty>>))
    /\ op' = [name |-> "next_value_seed", node |-> op.node]
    /\ UNCHANGED <<value, steps, calls>>

NextAccess ==
    \/ \E v \in SeqValues : FromData(v)
    \/ \E v \in SeqValues : VisitSeqOf(v)
    \/ NextElementOf
    \/ \E node \in MapNodes : DeserializeMap(node)
    \/ \E ty \in KeyTypes : NextKey(ty)
    \/ \E ty \in ValueTypes : NextValue(ty)

SpecAccess == AccessInit /\ [][NextAccess]_vars

----------------------------------------------------------------------------
(* Claims about the walkers *)

RECURSIVE IntLeaves(_)
RECURSIVE IntLeavesOfAll(_, _)
\* every Int leaf of a tree (map keys included), in tree order
IntLeavesOfAll(inner, i) ==
    IF i > Len(inner) THEN <<>> ELSE IntLeaves(inner[i]) \o IntLeavesOfAll(inner, i + 1)
IntLeaves(pd) ==
    CASE pd.data.k \in {"Node", "Enum"} -> IntLeavesOfAll(pd.data.inner, 1)
      [] pd.data.k = "Map" -> IntLeaves(pd.data.key) \o IntLeaves(pd.data.value)
      [] pd.data.k = "Int" -> <<pd.data>>
      [] OTHER -> <<>>

RECURSIVE IntTypesOf(_)
RECURSIVE IntTypesOfAll(_, _)
RECURSIVE IntTypesOfPairs(_, _, _)
\* the integer types of a value's integers, in the same order
IntTypesOfAll(vs, i) ==
    IF i > Len(vs) THEN <<>> ELSE IntTypesOf(vs[i]) \o IntTypesOfAll(vs, i + 1)
IntTypesOfPairs(ps, i, withKey) ==
    IF i > Len(ps) THEN <<>>
    ELSE (IF withKey THEN IntTypesOf(ps[i][1]) ELSE <<>>) \o IntTypesOf(ps[i][2])
         \o IntTypesOfPairs(ps, i + 1, withKey)
IntTypesOf(v) ==
    CASE v.ty \in IntTypes -> <<v.ty>>
      [] v.ty = "option" -> IF v.some THEN IntTypesOf(v.val) ELSE <<>>
      [] v.ty = "newtype_struct" -> IntTypesOf(v.val)
      [] v.ty \in {"seq", "tuple", "tuple_struct"} -> IntTypesOfAll(v.elems, 1)
      [] v.ty = "struct" -> IntTypesOfPairs(v.fields, 1, FALSE)
      [] v.ty = "map" -> IntTypesOfPairs(IterOrder(v.entries), 1, TRUE)
      [] v.ty = "enum" /\ v.shape = "newtype" -> IntTypesOf(v.val)
      [] v.ty = "enum" /\ v.shape = "tuple" -> IntTypesOfAll(v.elems, 1)
      [] v.ty = "enum" /\ v.shape = "struct" -> IntTypesOfPairs(v.fields, 1, FALSE)
      [] OTHER -> <<>>

\* [MIN, MAX] of each primitive integer type, written out in limbs
TypeBounds(ty) ==
    CASE ty = "i8" -> [start |-> ZOf(-128), end |-> ZOf(127)]
      [] ty = "i16" -> [start |-> ZOf(-32768), end |-> ZOf(32767)]
      [] ty = "i32" -> [start |-> [neg |-> TRUE, mag |-> <<0, 32768>>],
                        end |-> [neg |-> FALSE, mag |-> <<65535, 32767>>]]
      [] ty = "i64" -> [start |-> [neg |-> TRUE, mag |-> <<0, 0, 0, 32768>>],
                        end |-> [neg |-> FALSE, mag |-> <<65535, 65535, 65535, 32767>>]]
      [] ty = "u8" -> [start |-> ZOf(0), end |-> ZOf(255)]
      [] ty = "u16" -> [start |-> ZOf(0), end |-> ZOf(65535)]
      [] ty = "u32" -> [start |-> ZOf(0), end |-> [neg |-> FALSE, mag |-> <<65535, 65535>>]]
      [] ty = "u64" -> [start |-> ZOf(0), end |-> [neg |-> FALSE, mag |-> <<65535, 65535, 65535, 65535>>]]

\* C1: in every tree the walkers can reach, every Int leaf carries exactly the
\* [MIN, MAX] of the integer type it was encoded from, and its value lies in it.
C1_IntLeafInRange ==
    pc # "init" =>
        LET ls == IntLeaves(data)
            ts == IntTypesOf(value)
        IN  /\ Len(ls) = Len(ts)
            /\ \A i \in 1..Len(ls) :
                  /\ ls[i].range = TypeBounds(ts[i])
                  /\ ZLe(ls[i].range.start, ls[i].value)
                  /\ ZLe(ls[i].value, ls[i].range.end)

\* after two walker calls, an Int leaf sits on the upper end of its range and did not
\* start there
C1_Witness ==
    /\ steps = 2
    /\ \E i \in 1..Len(IntLeaves(data)) :
          /\ IntLeaves(data)[i].value = IntLeaves(data)[i].range.end
          /\ IntLeaves(to_data(value))[i].value # IntLeaves(data)[i].range.end

\* what C4 says a numeric leaf holds after a boundary value v of its curve is stored
StoredAs(leaf, v) ==
    IF leaf.data.k = "Int" THEN leaf.data.value = Compress(FloatAsI128(v), leaf.data.range)
    ELSE leaf.data.f = v

\* C4: after animation_caculate, a numeric leaf whose curve is non-empty and yields no
\* sample holds the start value when duration < start_time, and the end value when
\* duration >= start_time + len (Int leaves: cast and clamped).
C4_ClampOutsideWindow ==
    pc = "animation_caculate" =>
        \A i \in 1..Len(NumericLeaves(data)) :
            LET e == NumericLeaves(data)[i]
                t == op.map[e.path]
            IN  (e.path \in DOMAIN op.map /\ ~AnimationIsEmpty(t)
                   /\ ~AnimationSample(t, op.duration).some) =>
                    /\ op.duration < t.start_time => StoredAs(e.leaf, t.start_value)
                    /\ op.duration >= t.start_time + AnimationLen(t) =>
                           StoredAs(e.leaf, AnimationEndValue(t))

----------------------------------------------------------------------------
(* Claims about caculate_delta, apply_delta and CanBeAnimated::caculate *)

RECURSIVE IntsOf(_)
RECURSIVE IntsOfAll(_, _)
RECURSIVE IntsOfFields(_, _)
\* the integers of a value of structs, tuples and sequences, in field order
IntsOfAll(vs, i) == IF i > Len(vs) THEN <<>> ELSE IntsOf(vs[i]) \o IntsOfAll(vs, i + 1)
IntsOfFields(fs, i) == IF i > Len(fs) THEN <<>> ELSE IntsOf(fs[i][2]) \o IntsOfFields(fs, i + 1)
IntsOf(v) ==
    CASE v.ty \in IntTypes -> <<v.int>>
      [] v.ty \in {"seq", "tuple", "tuple_struct"} -> IntsOfAll(v.elems, 1)
      [] v.ty = "struct" -> IntsOfFields(v.fields, 1)
      [] OTHER -> <<>>

RECURSIVE NumericOnly(_)
\* numbers, and structs, tuples, tuple structs and sequences of them
NumericOnly(v) ==
    CASE v.ty \in IntTypes \cup {"f32", "f64"} -> TRUE
      [] v.ty \in {"seq", "tuple", "tuple_struct"} -> \A i \in 1..Len(v.elems) : NumericOnly(v.elems[i])
      [] v.ty = "struct" -> \A i \in 1..Len(v.fields) : NumericOnly(v.fields[i][2])
      [] OTHER -> FALSE

\* C2: for numeric-only, map-free and enum-free structs L and R of the same shape,
\* apply_delta(R, caculate_delta(L, R)) succeeds and leaves R with every integer field
\* equal to the corresponding field of L.
C2_PatchReconstructsIntegers ==
    pc = "apply_delta" =>
        \A L \in SameType(op.input) :
            (/\ L.ty = "struct" /\ NumericOnly(L) /\ NumericOnly(op.input)
             /\ op.map = caculate_delta(L, op.input))
                => result.ok /\ IntsOf(value) = IntsOf(L)

\* C3, as stated: the PathID of the top-level field x of a Position is "----x", so that
\* caculate_delta(Position{10, 2.0}, Position{4, 2.0}) is {"----x": 6.0} and apply_delta
\* of that map to Position{4, 2.0} yields Position{10, 2.0}.
C3_FieldPathIsDelimiterName ==
    /\ (pc = "caculate_delta" /\ op.left = Position(10, 2) /\ op.right = Position(4, 2))
          => result.val = ConstMap({"----x"}, FOfInt(6))
    /\ (pc = "apply_delta" /\ op.input = Position(4, 2) /\ op.map = ConstMap({"----x"}, FOfInt(6)))
          => value = Position(10, 2)

\* C3, amended: the root Node carries the struct's name, so the PathID of the field is
\* "----Position----x": caculate_delta(Position{10, 2.0}, Position{4, 2.0}) is exactly
\* {"----Position----x": 6.0} (y absent), apply_delta of that map to Position{4, 2.0}
\* yields Position{10, 2.0}, and apply_delta of {"----x": 6.0} leaves it as it was.
C3_FieldPathUnderRootName ==
    /\ (pc = "caculate_delta" /\ op.left = Position(10, 2) /\ op.right = Position(4, 2))
          => result.val = ConstMap({"----Position----x"}, FOfInt(6))
    /\ (pc = "apply_delta" /\ op.input = Position(4, 2)
          /\ op.map = ConstMap({"----Position----x"}, FOfInt(6)))
          => result.ok /\ value = Position(10, 2)
    /\ (pc = "apply_delta" /\ op.input = Position(4, 2) /\ op.map = ConstMap({"----x"}, FOfInt(6)))
          => result.ok /\ value = Position(4, 2)

\* the map caculate_delta returned for the two Positions has been applied to the right one
C3_Witness ==
    /\ pc = "apply_delta"
    /\ op.input = Position(4, 2)
    /\ op.map = caculate_delta(Position(10, 2), Position(4, 2))
    /\ value = Position(10, 2)

\* C5: apply_delta with an empty delta map and CanBeAnimated::caculate with an empty
\* animation map return Ok and leave the target unchanged without any to_data or
\* from_data call, whatever the target.
C5_EmptyMapNoRoundTrip ==
    (pc \in {"apply_delta", "caculate"} /\ DOMAIN op.map = {}) =>
        /\ result.ok
        /\ value = op.input
        /\ calls = NoCalls

\* caculate was given an empty map and a target that from_data(to_data(_)) does not
\* give back
C5_Witness ==
    /\ pc = "caculate"
    /\ DOMAIN op.map = {}
    /\ from_data(to_data(value), TypeOf(value)) # ROk(value, from_data(to_data(value), TypeOf(value)).data)

\* whether no Float leaf of the value is NaN
NoNaN(v) ==
    \A i \in 1..Len(NumericLeaves(to_data(v))) :
        LET leaf == NumericLeaves(to_data(v))[i].leaf
        IN  leaf.data.k = "Float" => leaf.data.f.cls # "nan"

\* C6: caculate_delta(v, v) is the empty map for every v whose numeric leaves are
\* integers or non-NaN floats, whatever its shape.
C6_DeltaOfSelfIsEmpty ==
    (pc = "caculate_delta" /\ op.left = op.right /\ NoNaN(op.left)) => result.val = EmptyMap

\* caculate_delta of a value with integers, floats, a tuple, an enum and a map against
\* itself
C6_Witness ==
    /\ pc = "caculate_delta"
    /\ op.left = Bag
    /\ op.right = Bag
    /\ result.val = EmptyMap

----------------------------------------------------------------------------
(* Claims about from_data and the Deserializer *)

PlainScalars == IntTypes \cup {"bool", "f32", "f64", "String"}

\* a struct with named fields, each a bool, an integer, a float or a string
PlainScalarStruct(v) ==
    v.ty = "struct" /\ \A i \in 1..Len(v.fields) : v.fields[i][2].ty \in PlainScalars

\* C7: for every struct v with named fields that are all plain scalars,
\* from_data(to_data(v)) succeeds and equals v.
C7_PlainStructRoundTrip ==
    (pc = "from_data" /\ PlainScalarStruct(value)) => result.ok /\ result.val = value

\* a struct of five fields of five types has come back from from_data(to_data(_))
C7_Witness ==
    /\ pc = "from_data"
    /\ value = Plain
    /\ result.ok
    /\ result.val = Plain

\* the DataEnum variant a scalar target decodes from
LeafVariantOf(ty) == IF ty = "char" THEN "String" ELSE MacroVariant(ty)

\* C8: decoding a scalar leaf into a scalar target of another kind fails with
\* UnexpectedType naming the target's kind and leaves the leaf as it was, need_delete
\* unset; a matching decode succeeds and sets need_delete.
C8_ScalarMismatch ==
    (pc = "deserialize" /\ op.leaf.data.k \in {"Bool", "Int", "Float", "String"}) =>
        IF op.leaf.data.k = LeafVariantOf(op.ty.ty)
        THEN result.ok /\ data = [op.leaf EXCEPT !.need_delete = TRUE]
        ELSE /\ ~result.ok
             /\ result.err = UnexpectedType(op.ty.ty)
             /\ data = op.leaf
             /\ ~data.need_delete

\* the variant of the enum a visitor asks for on a node: the one of the node's name
Requested(ty, node) == ty.variants[NameIndex(VariantNames(ty.variants), node.data.variant)]

EnumCase(shapes, empty) ==
    /\ pc = "deserialize_enum"
    /\ op.node.data.k = "Enum"
    /\ NameIndex(VariantNames(op.ty.variants), op.node.data.variant) # 0
    /\ Requested(op.ty, op.node).shape \in shapes
    /\ (op.node.data.inner = <<>>) = empty

\* the two matching requests of C9: a unit variant on an empty payload, a newtype
\* variant on a payload of one element, which decode to the variant name and payload[0]
EnumMatches ==
    /\ EnumCase({"unit"}, TRUE) =>
          /\ result.ok
          /\ result.val.shape = "unit"
          /\ result.val.variant = op.node.data.variant
    /\ (EnumCase({"newtype"}, FALSE) /\ Len(op.node.data.inner) = 1) =>
          /\ result.ok
          /\ result.val.variant = op.node.data.variant
          /\ result.val.val = VInt("i16", op.node.data.inner[1].data.value)

\* C9, as stated: enum decode fails with Error::Syntax in both mismatch directions, a
\* payload-bearing variant requested on an empty payload and a unit variant requested
\* on a non-empty payload; matching requests succeed.
C9_MismatchIsSyntax ==
    /\ EnumCase({"newtype", "tuple", "struct"}, TRUE) => ~result.ok /\ result.err = Syntax
    /\ EnumCase({"unit"}, FALSE) => ~result.ok /\ result.err = Syntax
    /\ EnumMatches

\* C9, amended: a unit variant requested on a non-empty payload fails with
\* Error::Syntax; a payload-bearing variant requested on an empty payload fails with
\* Error::SerdeError, the invalid-type message of serde's unit-only variant access;
\* matching requests succeed.
C9_MismatchIsSyntaxOrSerdeError ==
    /\ EnumCase({"newtype", "tuple", "struct"}, TRUE) =>
          /\ ~result.ok
          /\ result.err.kind = "SerdeError"
          /\ result.err = UnitOnlyMessage(Requested(op.ty, op.node).shape)
    /\ EnumCase({"unit"}, FALSE) => ~result.ok /\ result.err = Syntax
    /\ EnumMatches

\* a newtype variant was requested on an Enum node with an empty payload
C9_Witness == EnumCase({"newtype"}, TRUE) /\ ~result.ok

\* C10: over a Node with n unconsumed scalar children c0..c(n-1), the visitor receives
\* the children from the last to the first, each once, and then the end of the sequence;
\* consumed children are stripped before the first request.
C10_TailFirst ==
    pc \in {"visit_seq", "seq_end"} =>
        LET cs == SelectSeq(op.node.data.inner, LAMBDA c : ~c.need_delete)
            n  == Len(cs)
        IN  /\ Len(received) <= n
            /\ \A i \in 1..Len(received) :
                  received[i].val = MacroValue(cs[n + 1 - i].data, received[i].ty.ty)
            /\ received = <<>> => data.data.inner = cs
            /\ pc = "seq_end" => Len(received) = n /\ data.data.inner = <<>>

\* the end of a Node of four children, one of them consumed beforehand, after three
\* elements of three types
C10_Witness ==
    /\ pc = "seq_end"
    /\ Len(op.node.data.inner) = 4
    /\ Len(received) = 3
    /\ received[1].ty # received[2].ty

----------------------------------------------------------------------------
(* Claims about SeqAccess and MapAccess *)

\* C11: a visitor that asks a Node for elements until the end is handed at most as many
\* elements as the Node has children, whatever their kinds, and from_data of a Vec
\* returns.
C11_SequenceDecodeEnds ==
    /\ pc \in {"visit_seq", "seq_end"} => Len(received) <= Len(op.node.data.inner)
    /\ pc = "from_data" => (result.ok \/ result.err.kind # "diverges")

\* the children of the Node deserialize_map was called on, and the cursor: the index of
\* the last of them not yet handed to the visitor
Pairs == op.node.data.inner
Cursor == Len(Pairs) - Len(received)

\* C12: over a Node of n pairs the visitor is handed each pair once, the last first:
\* next_key_seed exposes the key of the last unconsumed pair and keeps its value,
\* next_value_seed returns that value and marks that pair and no other, the key call
\* after the n-th entry reports the end, and a child at the cursor that is no pair makes
\* next_key_seed fail with UnexpectedType.
C12_LastPairFirst ==
    /\ pc \in {"visit_map", "map_value", "map_end"} =>
          /\ Cursor >= 0
          /\ \A i \in 1..Len(received) :
                LET pair == Pairs[Len(Pairs) + 1 - i].data
                IN  /\ pair.k = "Map"
                    /\ received[i].key = VString(pair.key.data.s)
                    /\ received[i].val = MacroValue(pair.value.data, received[i].ty.ty)
          /\ Retain(data.data.inner) = SubSeq(Pairs, 1, Cursor)
          /\ Len(data.data.inner) <= Cursor + 1
          /\ pc = "map_value" =>
                /\ Pairs[Cursor].data.k = "Map"
                /\ result.val = VString(Pairs[Cursor].data.key.data.s)
                /\ result.temp = Pairs[Cursor].data.value
          /\ pc = "map_end" => Cursor = 0
    /\ (/\ pc = "map_err"
        /\ op.name = "next_key_seed"
        /\ Cursor >= 1
        /\ Pairs[Cursor].data.k # "Map") => result.err = UnexpectedType("Map")

\* the end of a Node of three pairs, after three entries
C12_Witness ==
    /\ pc = "map_end"
    /\ Len(Pairs) = 3
    /\ Len(received) = 3
    /\ received[1].key = VString("c")
    /\ received[3].key = VString("a")

----------------------------------------------------------------------------
(* Claims about what the walkers leave alone and the PathIDs they derive *)

RECURSIVE SameBut(_, _, _, _)
\* after is before but for the numeric value of the Int and Float leaves whose PathID
\* is in keys: names, kinds, variant names, pair keys, ranges, consumed marks, the
\* number and the order of children are the same
SameBut(id0, before, after, keys) ==
    LET id == PathId(id0, before.name)
    IN  /\ after.name = before.name
        /\ after.need_delete = before.need_delete
        /\ after.data.k = before.data.k
        /\ CASE before.data.k = "Node" ->
                  /\ Len(after.data.inner) = Len(before.data.inner)
                  /\ \A i \in 1..Len(before.data.inner) :
                        SameBut(id, before.data.inner[i], after.data.inner[i], keys)
             [] before.data.k = "Enum" ->
                  /\ after.data.variant = before.data.variant
                  /\ Len(after.data.inner) = Len(before.data.inner)
                  /\ \A i \in 1..Len(before.data.inner) :
                        SameBut(id, before.data.inner[i], after.data.inner[i], keys)
             [] before.data.k = "Map" ->
                  /\ after.data.key = before.data.key
                  /\ SameBut(id, before.data.value, after.data.value, keys)
             [] before.data.k = "Int" ->
                  /\ after.data.range = before.data.range
                  /\ id \notin keys => after.data.value = before.data.value
             [] before.data.k = "Float" ->
                  id \notin keys => after.data.f = before.data.f
             [] OTHER -> after = before

\* C13: a walk of apply_delta_data changes nothing of the tree but the numeric value of
\* the Int and Float leaves whose PathID is a key of the delta map.
C13_OnlyKeyedNumericValues ==
    [][pc' = "apply_delta_data" /\ steps' = steps + 1
          => SameBut("", data, data', DOMAIN op'.map)]_vars

\* a first walk of Misc under a map that has the PathIDs of its skipped leaves, of its root
\* and of one Int leaf: that leaf has changed, and an Int leaf that is no key is there
C13_Witness ==
    /\ pc = "apply_delta_data"
    /\ steps = 1
    /\ value = Misc
    /\ data # to_data(value)
    /\ SkippedPaths(data) \subseteq DOMAIN op.map
    /\ NumericPaths(data) \ DOMAIN op.map # {}

RECURSIVE Addrs(_)
RECURSIVE AddrsOfAll(_, _)
Prefixed(c, as) == [j \in 1..Len(as) |-> <<c>> \o as[j]]
\* where the Int and Float leaves of a tree are, in encounter order: the address of a
\* leaf is the index of the child taken at each aggregate on the way (0: into a pair's value)
AddrsOfAll(inner, i) ==
    IF i > Len(inner) THEN <<>> ELSE Prefixed(i, Addrs(inner[i])) \o AddrsOfAll(inner, i + 1)
Addrs(pd) ==
    CASE pd.data.k \in {"Node", "Enum"} -> AddrsOfAll(pd.data.inner, 1)
      [] pd.data.k = "Map" -> Prefixed(0, Addrs(pd.data.value))
      [] pd.data.k \in {"Int", "Float"} -> << <<>> >>
      [] OTHER -> <<>>

Child(pd, c) == IF pd.data.k = "Map" THEN pd.data.value ELSE pd.data.inner[c]

RECURSIVE LeafAt(_, _)
LeafAt(pd, addr) == IF addr = <<>> THEN pd ELSE LeafAt(Child(pd, Head(addr)), Tail(addr))

RECURSIVE WithLeafAt(_, _, _)
\* pd with leaf in the place of the leaf at addr
WithLeafAt(pd, addr, leaf) ==
    IF addr = <<>> THEN leaf
    ELSE IF pd.data.k = "Map" THEN [pd EXCEPT !.data.value = WithLeafAt(@, Tail(addr), leaf)]
    ELSE [pd EXCEPT !.data.inner[Head(addr)] = WithLeafAt(@, Tail(addr), leaf)]

RECURSIVE JoinedNames(_, _)
\* the names of the nodes from the root to the leaf at addr, each after the delimiter
JoinedNames(pd, addr) ==
    "----" \o pd.name
    \o (IF addr = <<>> THEN "" ELSE JoinedNames(Child(pd, Head(addr)), Tail(addr)))

IsNaNLeaf(leaf) == leaf.data.k = "Float" /\ leaf.data.f = FNaN
NaNPaths(t) ==
    {JoinedNames(t, Addrs(t)[i]) : i \in {j \in 1..Len(Addrs(t)) : IsNaNLeaf(LeafAt(t, Addrs(t)[j]))}}

\* a leaf of the same kind that caculate_delta_data finds different
Differing(leaf) ==
    IF leaf.data.k = "Int" THEN [leaf EXCEPT !.data.value = ZAdd(@, ZOf(1))]
    ELSE [leaf EXCEPT !.data.f = FNaN]

\* a curve that yields c at duration 0
ConstCurve(c) == Animation(0, 1, FOfInt(c), FOfInt(c), FALSE, {0}, FOfInt(c))
Holds(leaf, c) ==
    IF leaf.data.k = "Int" THEN leaf.data.value = ZOf(c) ELSE leaf.data.f = FOfInt(c)

\* deltas of which one moves any leaf but a NaN: an Int by one, off an end of its range,
\* a Float to NaN
MovingDeltas(leaf) == IF leaf.data.k = "Int" THEN {FOfInt(1), FOfInt(-1)} ELSE {FNaN}

\* the leaf at addr is the one each walker knows under the PathID x
KnownAs(t, addr, x) ==
    /\ x \in DOMAIN caculate_delta_data(t, WithLeafAt(t, addr, Differing(LeafAt(t, addr))), EmptyMap, "")
    /\ DOMAIN caculate_delta_data(t, WithLeafAt(t, addr, Differing(LeafAt(t, addr))), EmptyMap, "")
          \subseteq {x} \cup NaNPaths(t)
    /\ \A c \in {1, 2} :
          Holds(LeafAt(animation_caculate("", t, 0, ConstMap({x}, ConstCurve(c))), addr), c)
    /\ IsNaNLeaf(LeafAt(t, addr))
          \/ \E d \in MovingDeltas(LeafAt(t, addr)) :
                LeafAt(apply_delta_data("", t, ConstMap({x}, d)), addr) # LeafAt(t, addr)

\* C14: in every tree t the walkers reach, caculate_delta_data (t against a tree of the
\* same shape), apply_delta_data and animation_caculate know each Int and Float leaf under
\* one PathID: the names of the nodes from the root to the leaf, in order, each after
\* the delimiter.
C14_WalkersAgreeOnPathId ==
    pc \in {"to_data", "apply_delta_data", "animation_caculate"} =>
        \A i \in 1..Len(Addrs(data)) :
            KnownAs(data, Addrs(data)[i], JoinedNames(data, Addrs(data)[i]))

\* Misc after a walk: leaves under a struct variant and under a pair of a map
C14_Witness ==
    /\ pc \in {"apply_delta_data", "animation_caculate"}
    /\ Len(Addrs(data)) = 4
    /\ JoinedNames(data, Addrs(data)[1]) = "----Misc----rect----w"
    /\ JoinedNames(data, Addrs(data)[3]) = "----Misc----ages----3----"
    /\ Addrs(data)[3] = <<5, 1, 0>>

====
